---- MODULE Spec2Model ----
(***************************************************************************)
(* Model of the WhatsApp car-classifieds bot: the sell form wizard         *)
(* (app/bot/services/forms.py) and the buy filter state                    *)
(* (app/bot/handlers/buy.py).                                              *)
(*                                                                         *)
(* A Python str is a sequence of Unicode code points, so that lower(),     *)
(* strip(), split(), title() and int() are computed as the interpreter     *)
(* computes them.  Python values are tagged records (PyNone, PyInt, PyStr, *)
(* PyList); a dict is a function whose DOMAIN is the set of present keys.  *)
(***************************************************************************)
EXTENDS Integers, Sequences, FiniteSets, TLC

VARIABLES
    states,      \* SellFormManager._states: sender -> SellFormState
    nextFile,    \* number of files _save_media has written (fresh names)
    reply,       \* what the last operation returned / answered
    exc,         \* exception that escaped the last operation ("none" if it returned)
    call,        \* create_ad_from_form call made by the last operation, or NoCall
    filters,     \* buy._FILTER_STATE: sender -> dict
    file,        \* content of state_filters.json, or NoFile
    lastWriteOk, \* whether the last _STATE_FILE.write_text succeeded
    failedWrites, \* number of writes of state_filters.json that failed
    store,       \* the database: rows of ads, ad_images and car_brands
    lastCatalog, \* buy._LAST_CATALOG: sender -> ids of the last rendered page
    lastDetails, \* buy._LAST_DETAILS: sender -> (id -> payload of the row)
    lastViewed,  \* buy._LAST_VIEWED: sender -> id of the ad opened last
    searchWait,  \* buy._SEARCH_WAIT: sender -> TRUE while a query is awaited
    lastSummaries, \* sell._LAST_SUMMARIES: sender -> ids of the last own list
    processed,   \* basic._PROCESSED_IDS: the idMessage values recorded, oldest first
    users,       \* the senders that have a row in the users table
    settings,    \* Settings: allowed_senders and whether auto_reply_text is set
    routed,      \* the handler the router called last and the sender of its event
    runner       \* state.db_runner: its loop, the coroutines handed to it, the caller

vars ==
    <<states, nextFile, reply, exc, call, filters, file, lastWriteOk, failedWrites,
      store, lastCatalog, lastDetails, lastViewed, searchWait, lastSummaries,
      processed, users, settings, routed, runner>>
formVars == <<states, nextFile, call>>
filterVars == <<filters, file, lastWriteOk, failedWrites>>
cacheVars == <<lastCatalog, lastDetails, lastViewed, searchWait, lastSummaries>>
entryVars == <<processed, users, settings, routed, runner>>

-----------------------------------------------------------------------------
(* Bounds of the model *)

\* _save_media is modelled for at most this many stored files
MaxUploads == 4
\* ads the sell form adds to the store in one run
MaxNewAds == 2
\* the pagination cursor is driven up to this page
MaxPage == 2
\* writes of state_filters.json that fail in one run
MaxWriteFailures == 1
\* datetime.utcnow().year at the time the form is filled in
UtcYear == 2026

Senders == {"u1", "u2"}

-----------------------------------------------------------------------------
(* Python values *)

PyNone == [none |-> TRUE]
PyInt(n) == [int |-> n]
PyStr(s) == [str |-> s]
PyList(l) == [list |-> l]

-----------------------------------------------------------------------------
(* str methods, on sequences of code points *)

\* str.isspace() for one character
IsSpace(c) == c \in {9, 10, 11, 12, 13, 28, 29, 30, 31, 32, 133, 160}

\* Latin A-Z, Cyrillic U+0400..U+042F
IsUpperChar(c) == c \in 65..90 \/ c \in 1024..1071
\* Latin a-z, Cyrillic U+0430..U+045F
IsLowerChar(c) == c \in 97..122 \/ c \in 1072..1119
IsCased(c) == IsUpperChar(c) \/ IsLowerChar(c)

LowerChar(c) ==
    IF c \in 65..90 \/ c \in 1040..1071 THEN c + 32
    ELSE IF c \in 1024..1039 THEN c + 80
    ELSE c

UpperChar(c) ==
    IF c \in 97..122 \/ c \in 1072..1103 THEN c - 32
    ELSE IF c \in 1104..1119 THEN c - 80
    ELSE c

\* str.lower()
Lower(s) == [i \in 1..Len(s) |-> LowerChar(s[i])]

\* str.title(): a cased character is upper-cased unless the character before
\* it is cased, in which case it is lower-cased
Title(s) ==
    [i \in 1..Len(s) |->
        IF i > 1 /\ IsCased(s[i - 1]) THEN LowerChar(s[i]) ELSE UpperChar(s[i])]

RECURSIVE LStrip(_)
LStrip(s) ==
    IF s # <<>> /\ IsSpace(Head(s)) THEN LStrip(Tail(s)) ELSE s

RECURSIVE RStrip(_)
RStrip(s) ==
    IF s # <<>> /\ IsSpace(s[Len(s)]) THEN RStrip(SubSeq(s, 1, Len(s) - 1)) ELSE s

\* str.strip()
Strip(s) == RStrip(LStrip(s))

\* the leading run of non-whitespace characters
RECURSIVE TakeWord(_)
TakeWord(s) ==
    IF s = <<>> \/ IsSpace(Head(s)) THEN <<>> ELSE <<Head(s)>> \o TakeWord(Tail(s))

\* str.split(): split on runs of whitespace
RECURSIVE Split(_)
Split(s) ==
    LET t == LStrip(s) IN
    IF t = <<>> THEN <<>>
    ELSE LET w == TakeWord(t) IN <<w>> \o Split(SubSeq(t, Len(w) + 1, Len(t)))

\* str.split(maxsplit=1): the first word and the rest (leading whitespace of
\* the rest removed, trailing whitespace kept)
SplitMax1(s) ==
    LET t == LStrip(s) IN
    IF t = <<>> THEN <<>>
    ELSE LET w == TakeWord(t)
             rest == LStrip(SubSeq(t, Len(w) + 1, Len(t)))
         IN IF rest = <<>> THEN <<w>> ELSE <<w, rest>>

\* str.startswith(prefix)
StartsWith(s, p) == Len(s) >= Len(p) /\ SubSeq(s, 1, Len(p)) = p

\* str.replace(" ", "")
RECURSIVE RemoveSpaces(_)
RemoveSpaces(s) ==
    IF s = <<>> THEN <<>>
    ELSE IF Head(s) = 32 THEN RemoveSpaces(Tail(s))
    ELSE <<Head(s)>> \o RemoveSpaces(Tail(s))

IsDigit(c) == c \in 48..57

-----------------------------------------------------------------------------
(* int(str) *)

\* POSTGRES_INT_MAX
POSTGRES_INT_MAX == 2147483647
\* "2147483647"
IntMaxDigits == <<50, 49, 52, 55, 52, 56, 51, 54, 52, 55>>

\* int() accepts digits with single underscores between them
RECURSIVE DigitsOk(_, _)
DigitsOk(s, prevDigit) ==
    IF s = <<>> THEN prevDigit
    ELSE IF IsDigit(Head(s)) THEN DigitsOk(Tail(s), TRUE)
    ELSE IF Head(s) = 95 THEN prevDigit /\ DigitsOk(Tail(s), FALSE)
    ELSE FALSE

RECURSIVE OnlyDigits(_)
OnlyDigits(s) ==
    IF s = <<>> THEN <<>>
    ELSE IF IsDigit(Head(s)) THEN <<Head(s)>> \o OnlyDigits(Tail(s))
    ELSE OnlyDigits(Tail(s))

RECURSIVE DropZeros(_)
DropZeros(s) ==
    IF s # <<>> /\ Head(s) = 48 THEN DropZeros(Tail(s)) ELSE s

\* lexicographic s > t for digit strings of equal length
RECURSIVE DigitsGreater(_, _)
DigitsGreater(s, t) ==
    IF s = <<>> THEN FALSE
    ELSE IF Head(s) # Head(t) THEN Head(s) > Head(t)
    ELSE DigitsGreater(Tail(s), Tail(t))

\* the magnitude is above 2147483647
DigitsHuge(ds) ==
    LET d == DropZeros(ds) IN
    Len(d) > Len(IntMaxDigits)
        \/ (Len(d) = Len(IntMaxDigits) /\ DigitsGreater(d, IntMaxDigits))

RECURSIVE DigitsValue(_, _)
DigitsValue(ds, acc) ==
    IF ds = <<>> THEN acc ELSE DigitsValue(Tail(ds), acc * 10 + (Head(ds) - 48))

\* int(s): [ok, huge, val]; ok = FALSE is ValueError; huge = TRUE is a value
\* of magnitude above POSTGRES_INT_MAX, whose sign is kept in neg
ParseInt(s) ==
    LET t == Strip(s)
        signed == t # <<>> /\ Head(t) \in {43, 45}
        neg == t # <<>> /\ Head(t) = 45
        body == IF signed THEN Tail(t) ELSE t
        ds == OnlyDigits(body)
    IN  IF body = <<>> \/ ~IsDigit(Head(body)) \/ ~DigitsOk(body, FALSE)
        THEN [ok |-> FALSE, huge |-> FALSE, neg |-> FALSE, val |-> 0]
        ELSE IF DigitsHuge(ds)
        THEN [ok |-> TRUE, huge |-> TRUE, neg |-> neg, val |-> 0]
        ELSE [ok |-> TRUE, huge |-> FALSE, neg |-> neg,
              val |-> IF neg THEN 0 - DigitsValue(ds, 0) ELSE DigitsValue(ds, 0)]

-----------------------------------------------------------------------------
(* forms.py: constants and validators *)

T_otmena == <<1086, 1090, 1084, 1077, 1085, 1072>>  \* "отмена"
T_cancel == <<99, 97, 110, 99, 101, 108>>  \* "cancel"
T_stop_ru == <<1089, 1090, 1086, 1087>>  \* "стоп"
T_stop == <<115, 116, 111, 112>>  \* "stop"
T_menyu == <<1084, 1077, 1085, 1102>>  \* "меню"
T_menu == <<109, 101, 110, 117>>  \* "menu"
T_gotovo == <<1075, 1086, 1090, 1086, 1074, 1086>>  \* "готово"
T_done == <<100, 111, 110, 101>>  \* "done"
T_celyj == <<1094, 1077, 1083, 1099, 1081>>  \* "целый"
T_celaya == <<1094, 1077, 1083, 1072, 1103>>  \* "целая"
T_bez_dtp == <<1073, 1077, 1079, 32, 1076, 1090, 1087>>  \* "без дтп"
T_ne_bityj == <<1085, 1077, 32, 1073, 1080, 1090, 1099, 1081>>  \* "не битый"
T_nebityj == <<1085, 1077, 1073, 1080, 1090, 1099, 1081>>  \* "небитый"
T_posle_dtp == <<1087, 1086, 1089, 1083, 1077, 32, 1076, 1090, 1087>>  \* "после дтп"
T_bityj == <<1073, 1080, 1090, 1099, 1081>>  \* "битый"
T_bitaya == <<1073, 1080, 1090, 1072, 1103>>  \* "битая"
T_remont == <<1088, 1077, 1084, 1086, 1085, 1090>>  \* "ремонт"
T_remontirovalsya == <<1088, 1077, 1084, 1086, 1085, 1090, 1080, 1088, 1086, 1074, 1072, 1083, 1089, 1103>>  \* "ремонтировался"

CANCEL_WORDS == {T_otmena, T_cancel, T_stop_ru, T_stop, T_menyu, T_menu}
MEDIA_MESSAGE_TYPES == {"imageMessage", "documentMessage"}
MAX_PHOTOS == 3

Accept(v) == [ok |-> TRUE, value |-> v]
Reject(e) == [ok |-> FALSE, err |-> e]

_validate_text(value, field_name, min_length) ==
    LET cleaned == Strip(value) IN
    IF Len(cleaned) < min_length THEN Reject(<<field_name, "too short">>)
    ELSE Accept(PyStr(cleaned))

\* a price check that lets zero through
ValidatePriceFromZero(value) ==
    LET price == ParseInt(RemoveSpaces(value)) IN
    IF ~price.ok THEN Reject(<<"price", "must be a number">>)
    ELSE IF price.neg THEN Reject(<<"price", "must be greater than 0">>)
    ELSE IF price.huge THEN Reject(<<"price", "must be at most 2147483647">>)
    ELSE Accept(PyInt(price.val))

_validate_price(value) ==
    LET price == ParseInt(RemoveSpaces(value)) IN
    IF ~price.ok THEN Reject(<<"price", "must be a number">>)
    ELSE IF price.neg \/ (~price.huge /\ price.val <= 0)
        THEN Reject(<<"price", "must be greater than 0">>)
    ELSE IF price.huge THEN Reject(<<"price", "must be at most 2147483647">>)
    ELSE Accept(PyInt(price.val))

_validate_year(value) ==
    LET year == ParseInt(value)
        current_year == UtcYear + 1
    IN  IF ~year.ok THEN Reject(<<"year", "must be a number">>)
        ELSE IF year.huge \/ ~(1950 <= year.val /\ year.val <= current_year)
            THEN Reject(<<"year", "out of range">>)
        ELSE Accept(PyInt(year.val))

_validate_mileage(value) ==
    LET mileage == ParseInt(RemoveSpaces(value)) IN
    IF ~mileage.ok THEN Reject(<<"mileage", "must be a number">>)
    ELSE IF mileage.neg /\ (mileage.huge \/ mileage.val < 0)
        THEN Reject(<<"mileage", "must not be negative">>)
    ELSE IF mileage.huge THEN Reject(<<"mileage", "must be at most 2147483647">>)
    ELSE Accept(PyInt(mileage.val))

_validate_photos(value) == Reject(<<"photos", "send the photo as an attachment">>)

_validate_region(value) == _validate_text(value, "region", 2)

_validate_condition(value) ==
    LET cleaned == Lower(Strip(value)) IN
    IF cleaned \in {T_celyj, T_celaya, T_bez_dtp, T_ne_bityj, T_nebityj}
        THEN Accept(PyStr(T_celyj))
    ELSE IF cleaned \in {T_posle_dtp, T_bityj, T_bitaya, T_remont, T_remontirovalsya}
        THEN Accept(PyStr(T_posle_dtp))
    ELSE Reject(<<"condition", "say intact or after an accident">>)

\* the ordered steps of the form; "type" is "photos" on the last one only
SELL_FORM_STEPS ==
    << [key |-> "title", type |-> "text"],
       [key |-> "description", type |-> "text"],
       [key |-> "price", type |-> "text"],
       [key |-> "brand", type |-> "text"],
       [key |-> "model", type |-> "text"],
       [key |-> "year", type |-> "text"],
       [key |-> "mileage", type |-> "text"],
       [key |-> "vin", type |-> "text"],
       [key |-> "region", type |-> "text"],
       [key |-> "condition", type |-> "text"],
       [key |-> "photos", type |-> "photos"] >>

\* len(SELL_FORM_STEPS)
NSteps == Len(SELL_FORM_STEPS)

\* SELL_FORM_STEPS[i]["validator"](text), for the 0-based index i
StepValidator(i, text) ==
    CASE i = 0 -> _validate_text(text, "title", 3)
      [] i = 1 -> _validate_text(text, "description", 10)
      [] i = 2 -> _validate_price(text)
      [] i = 3 -> _validate_text(text, "brand", 2)
      [] i = 4 -> _validate_text(text, "model", 1)
      [] i = 5 -> _validate_year(text)
      [] i = 6 -> _validate_mileage(text)
      [] i = 7 -> _validate_text(text, "vin", 5)
      [] i = 8 -> _validate_region(text)
      [] i = 9 -> _validate_condition(text)
      [] OTHER -> _validate_photos(text)

-----------------------------------------------------------------------------
(* Python dict and list helpers *)

EmptyDict == <<>>
DictPut(d, k, v) == [x \in DOMAIN d \cup {k} |-> IF x = k THEN v ELSE d[x]]
DictPop(d, k) == [x \in DOMAIN d \ {k} |-> d[x]]

\* seq[i] for a Python index i: IndexError unless -len <= i < len
PyIndexOk(seq, i) == 0 - Len(seq) <= i /\ i < Len(seq)
PyIndex(seq, i) == IF i >= 0 THEN seq[i + 1] ELSE seq[Len(seq) + i + 1]

\* bool(x) is False for None and for the empty string
Falsy(x) == x = PyNone \/ ("str" \in DOMAIN x /\ x.str = <<>>)

-----------------------------------------------------------------------------
(* The database behind crud_manager: ads, ad_images and car_brands *)

T_Toyota == <<84, 111, 121, 111, 116, 97>>  \* "Toyota"

\* rows of the car_brands table of a fresh deployment
CarBrands == {[id |-> 1, name |-> T_Toyota]}

\* Ad.created_at has default=datetime.now(timezone.utc), evaluated once when
\* models.py is imported: every row the process inserts gets this instant
BootTime == 100

EmptyStore == [ads |-> <<>>, images |-> <<>>, brands |-> CarBrands]

\* what a store call leaves behind: the store, whether it raised, its value
StoreOut(st, raised, value) == [store |-> st, raised |-> raised, value |-> value]

\* CrudeCarBrand.get_by_name: lower(name) = lower(:name); PyNone when no row
get_brand_by_name(name) ==
    LET rows == {b \in store.brands : Lower(b.name) = Lower(name)} IN
    IF rows = {} THEN PyNone ELSE CHOOSE b \in rows : TRUE

\* _ensure_brand(name): the brand of that name, inserted when there is none
_ensure_brand(st, name) ==
    LET rows == {b \in st.brands : Lower(b.name) = Lower(name)} IN
    IF rows # {} THEN StoreOut(st, FALSE, CHOOSE b \in rows : TRUE)
    ELSE LET brand == [id |-> Cardinality(st.brands) + 1, name |-> name]
         IN  StoreOut([st EXCEPT !.brands = @ \cup {brand}], FALSE, brand)

\* an insert into ads that does not look at the VIN of the rows present
AddWithoutConflictCheck(st, values) ==
    LET ad == [values EXCEPT !.id = Len(st.ads) + 1, !.created_at = BootTime]
    IN  StoreOut([st EXCEPT !.ads = Append(@, ad)], FALSE, ad)

\* CrudeAdd.add: INSERT ... ON CONFLICT (vin_number) DO NOTHING RETURNING;
\* ValueError when no row comes back
CrudeAdd_add(st, values) ==
    IF \E i \in 1..Len(st.ads) : st.ads[i].vin_number = values.vin_number
    THEN StoreOut(st, TRUE, PyNone)
    ELSE LET ad == [values EXCEPT !.id = Len(st.ads) + 1, !.created_at = BootTime]
         IN  StoreOut([st EXCEPT !.ads = Append(@, ad)], FALSE, ad)

\* CrudeAdImage.add for the first n of the urls, in their order
RECURSIVE AddImages(_, _, _, _)
AddImages(st, ad_id, urls, n) ==
    IF n = 0 \/ urls = <<>> THEN st
    ELSE AddImages([st EXCEPT !.images = Append(@, [ad_id |-> ad_id, image_url |-> Head(urls)])],
                   ad_id, Tail(urls), n - 1)

\* how the store behaves during one create_ad_from_form: it answers every
\* call, it fails the first call, crud_manager.ad.add raises for another
\* reason than the VIN, or car_image.add raises after `stored` images
DbOk == [kind |-> "ok"]
DbDown == [kind |-> "down"]
DbAdFails == [kind |-> "ad_fails"]
DbImageFails(k) == [kind |-> "image_fails", stored |-> k]
DbOutcomes == {DbOk, DbDown, DbAdFails} \cup {DbImageFails(k) : k \in 0..(MAX_PHOTOS - 1)}

\* the value of data.get(key)
DataGet(data, key) == IF key \in DOMAIN data THEN data[key] ELSE PyNone

\* _create_ad_from_form(sender, data)
_create_ad_from_form(st, sender, data, db) ==
    IF db = DbDown THEN StoreOut(st, TRUE, PyNone)
    ELSE LET b == _ensure_brand(st, data["brand"].str) IN
         IF db = DbAdFails THEN StoreOut(b.store, TRUE, PyNone)
         ELSE LET a == CrudeAdd_add(b.store,
                           [id |-> 0, created_at |-> 0,
                            sender |-> sender,
                            title |-> data["title"],
                            description |-> data["description"],
                            price |-> data["price"],
                            year_car |-> data["year"],
                            car_brand_id |-> b.value.id,
                            model_name |-> DataGet(data, "model"),
                            mileage_km_car |-> data["mileage"],
                            vin_number |-> data["vin"],
                            region |-> DataGet(data, "region"),
                            condition |-> DataGet(data, "condition"),
                            day_count |-> 7,
                            is_active |-> TRUE])
                  photos == IF "photos" \in DOMAIN data THEN data["photos"].list ELSE <<>>
              IN  IF a.raised THEN a
                  ELSE IF db.kind = "image_fails" /\ db.stored < Len(photos)
                  THEN StoreOut(AddImages(a.store, a.value.id, photos, db.stored), TRUE, PyNone)
                  ELSE StoreOut(AddImages(a.store, a.value.id, photos, Len(photos)),
                                FALSE, a.value)

-----------------------------------------------------------------------------
(* forms.py: SellFormManager *)

NoCall == [made |-> FALSE]
NoReply == [kind |-> "no_reply"]
\* the empty string returned by handle / handle_media
EmptyReply == [kind |-> "empty"]

\* what an operation leaves behind: the _states mapping, the value it
\* returned, the exception that escaped it, and its create_ad_from_form call;
\* the store is as it was unless that call wrote to it
Outcome(sts, r, e, c) ==
    [states |-> sts, reply |-> r, exc |-> e, call |-> c, store |-> store]

\* SellFormState()
SellFormState == [step_index |-> 0, data |-> EmptyDict, photos |-> <<>>]

\* a photo step that lets an empty photo list through
HandlePhotosStepAnyCount(state, text) ==
    IF Lower(text) \in {T_gotovo, T_done}
    THEN [ret |-> FALSE, reply |-> NoReply,
          state |-> [state EXCEPT
                       !.data = DictPut(@, "photos", PyList(state.photos)),
                       !.step_index = @ + 1]]
    ELSE [ret |-> TRUE, reply |-> [kind |-> "send_photo_or_done"], state |-> state]

\* a photo step that moves on at «готово» without putting the photos into
\* the data
HandlePhotosStepWithoutKey(state, text) ==
    IF Lower(text) \in {T_gotovo, T_done}
    THEN IF state.photos = <<>>
         THEN [ret |-> TRUE, reply |-> [kind |-> "add_a_photo_first"], state |-> state]
         ELSE [ret |-> FALSE, reply |-> NoReply,
               state |-> [state EXCEPT !.step_index = @ + 1]]
    ELSE [ret |-> TRUE, reply |-> [kind |-> "send_photo_or_done"], state |-> state]

\* handle, lines 73-82: a text on the photo step
HandlePhotosStep(state, text) ==
    IF Lower(text) \in {T_gotovo, T_done}
    THEN IF state.photos = <<>>
         THEN [ret |-> TRUE, reply |-> [kind |-> "add_a_photo_first"], state |-> state]
         ELSE [ret |-> FALSE, reply |-> NoReply,
               state |-> [state EXCEPT
                            !.data = DictPut(@, "photos", PyList(state.photos)),
                            !.step_index = @ + 1]]
    ELSE [ret |-> TRUE, reply |-> [kind |-> "send_photo_or_done"], state |-> state]

\* a step that moves on although its validator rejected the text
HandleStepAdvancesOnError(state, text) ==
    LET step == PyIndex(SELL_FORM_STEPS, state.step_index) IN
    IF step.type = "photos"
    THEN HandlePhotosStep(state, text)
    ELSE LET res == StepValidator(state.step_index, text) IN
         IF ~res.ok
         THEN [ret |-> TRUE,
               reply |-> [kind |-> "error", err |-> res.err, prompt |-> state.step_index],
               state |-> [state EXCEPT !.step_index = @ + 1]]
         ELSE [ret |-> FALSE, reply |-> NoReply,
               state |-> [state EXCEPT
                            !.data = DictPut(@, step.key, res.value),
                            !.step_index = @ + 1]]

\* a step that skips the description once the title is accepted
HandleStepSkipsAhead(state, text) ==
    LET step == PyIndex(SELL_FORM_STEPS, state.step_index) IN
    IF step.type = "photos"
    THEN HandlePhotosStep(state, text)
    ELSE LET res == StepValidator(state.step_index, text) IN
         IF ~res.ok
         THEN [ret |-> TRUE,
               reply |-> [kind |-> "error", err |-> res.err, prompt |-> state.step_index],
               state |-> state]
         ELSE [ret |-> FALSE, reply |-> NoReply,
               state |-> [state EXCEPT
                            !.data = DictPut(@, step.key, res.value),
                            !.step_index = IF @ = 0 THEN 2 ELSE @ + 1]]

\* handle, lines 72-88: the current step consumes the text; either handle
\* returns at once (ret) or the state is updated in place
HandleStep(state, text) ==
    LET step == PyIndex(SELL_FORM_STEPS, state.step_index) IN
    IF step.type = "photos"
    THEN HandlePhotosStep(state, text)
    ELSE LET res == StepValidator(state.step_index, text) IN
         IF ~res.ok
         THEN [ret |-> TRUE,
               reply |-> [kind |-> "error", err |-> res.err, prompt |-> state.step_index],
               state |-> state]
         ELSE [ret |-> FALSE, reply |-> NoReply,
               state |-> [state EXCEPT
                            !.data = DictPut(@, step.key, res.value),
                            !.step_index = @ + 1]]

\* a finish that keeps the form when create_ad_from_form raises
HandleFinishKeepsFailed(sts, sender, state, db) ==
    IF state.step_index >= NSteps
    THEN LET created == _create_ad_from_form(store, sender, state.data, db) IN
         [Outcome(IF created.raised THEN DictPut(sts, sender, state)
                  ELSE DictPop(sts, sender),
                  IF created.raised THEN [kind |-> "save_failed"]
                  ELSE [kind |-> "saved", id |-> created.value.id],
                  "none",
                  [made |-> TRUE, sender |-> sender, data |-> state.data,
                   ok |-> ~created.raised])
          EXCEPT !.store = created.store]
    ELSE IF ~PyIndexOk(SELL_FORM_STEPS, state.step_index)
    THEN Outcome(DictPut(sts, sender, state), NoReply, "IndexError", NoCall)
    ELSE Outcome(DictPut(sts, sender, state),
                 [kind |-> "prompt", step |-> state.step_index], "none", NoCall)

\* handle, lines 90-107: the form is finished when step_index has reached the
\* number of steps: create_ad_from_form is called, the form is cancelled and
\* the reply tells whether the call returned; db is how the store behaves
HandleFinish(sts, sender, state, db) ==
    IF state.step_index >= NSteps
    THEN LET created == _create_ad_from_form(store, sender, state.data, db) IN
         [Outcome(DictPop(sts, sender),
                  IF created.raised THEN [kind |-> "save_failed"]
                  ELSE [kind |-> "saved", id |-> created.value.id],
                  "none",
                  [made |-> TRUE, sender |-> sender, data |-> state.data,
                   ok |-> ~created.raised])
          EXCEPT !.store = created.store]
    ELSE IF ~PyIndexOk(SELL_FORM_STEPS, state.step_index)
    THEN Outcome(DictPut(sts, sender, state), NoReply, "IndexError", NoCall)
    ELSE Outcome(DictPut(sts, sender, state),
                 [kind |-> "prompt", step |-> state.step_index], "none", NoCall)

\* a cancel test that compares the text as typed
IsCancelWordAsTyped(text) == text \in CANCEL_WORDS

\* whether the text is one of the cancel keywords, whatever its case
IsCancelWord(text) == Lower(text) \in CANCEL_WORDS

\* SellFormManager.handle(sender, message)
handle(sts, sender, message, db) ==
    IF sender \notin DOMAIN sts THEN Outcome(sts, EmptyReply, "none", NoCall)
    ELSE IF Falsy(message) THEN Outcome(sts, [kind |-> "need_text"], "none", NoCall)
    ELSE LET text == Strip(message.str) IN
         IF IsCancelWord(text)
         THEN Outcome(DictPop(sts, sender), [kind |-> "cancelled"], "none", NoCall)
         ELSE LET state == sts[sender] IN
              IF ~PyIndexOk(SELL_FORM_STEPS, state.step_index)
              THEN Outcome(sts, NoReply, "IndexError", NoCall)
              ELSE LET r == HandleStep(state, text) IN
                   IF r.ret THEN Outcome(DictPut(sts, sender, r.state), r.reply, "none", NoCall)
                   ELSE HandleFinish(sts, sender, r.state, db)

\* _extract_media(message_data): (downloadUrl, fileName)
_extract_media(message_data) ==
    LET file_data == IF message_data.fileMessageData # PyNone
                     THEN message_data.fileMessageData
                     ELSE message_data.imageMessageData
    IN  IF file_data = PyNone THEN <<PyNone, PyNone>>
        ELSE <<file_data.downloadUrl, file_data.fileName>>

\* index of the last occurrence of c in s, 0 when there is none
RECURSIVE LastIndexOf(_, _)
LastIndexOf(s, c) ==
    IF s = <<>> THEN 0
    ELSE IF s[Len(s)] = c THEN Len(s)
    ELSE LastIndexOf(SubSeq(s, 1, Len(s) - 1), c)

\* Path(filename).suffix: from the last dot of the last path component, when
\* that dot is neither its first nor its last character
PathSuffix(filename) ==
    LET name == SubSeq(filename, LastIndexOf(filename, 47) + 1, Len(filename))
        dot == LastIndexOf(name, 46)
    IN  IF dot > 1 /\ dot < Len(name) THEN SubSeq(name, dot, Len(name)) ELSE <<>>

T_dot_jpg == <<46, 106, 112, 103>>  \* ".jpg"

\* _save_media: the path of the stored file; n stands for the fresh
\* timestamp_uuid part of the name
_save_media(n, filename) ==
    LET ext == IF Falsy(filename) THEN T_dot_jpg ELSE PathSuffix(filename.str)
        clean_ext == IF ext # <<>> THEN ext ELSE T_dot_jpg
    IN  [path |-> n, ext |-> clean_ext]

\* an append that never leaves the photo step
AppendPhotoUncapped(state, saved_path) ==
    [state EXCEPT !.photos = Append(@, saved_path)]

\* handle_media, lines 127-132: a stored photo is appended, and the photo
\* step is left once MAX_PHOTOS are collected
AppendPhoto(state, saved_path) ==
    LET photos == Append(state.photos, saved_path) IN
    IF Len(photos) >= MAX_PHOTOS
    THEN [state EXCEPT !.photos = photos,
                       !.data = DictPut(@, "photos", PyList(photos)),
                       !.step_index = @ + 1]
    ELSE [state EXCEPT !.photos = photos]

\* a handle_media that stores attachments of any message type
HandleMediaAnyType(sts, n, sender, message_data, dlOk) ==
    IF sender \notin DOMAIN sts THEN Outcome(sts, EmptyReply, "none", NoCall)
    ELSE LET state == sts[sender] IN
         IF ~PyIndexOk(SELL_FORM_STEPS, state.step_index)
         THEN Outcome(sts, NoReply, "IndexError", NoCall)
         ELSE IF PyIndex(SELL_FORM_STEPS, state.step_index).type # "photos"
         THEN Outcome(sts, EmptyReply, "none", NoCall)
         ELSE LET media == _extract_media(message_data) IN
              IF Falsy(media[1])
              THEN Outcome(sts, [kind |-> "cannot_read_attachment"], "none", NoCall)
              ELSE IF ~dlOk
              THEN Outcome(sts, [kind |-> "photo_not_saved"], "none", NoCall)
              ELSE LET st2 == AppendPhoto(state, _save_media(n + 1, media[2])) IN
                   Outcome(DictPut(sts, sender, st2),
                           IF Len(st2.photos) >= MAX_PHOTOS
                           THEN [kind |-> "enough_photos_write_done"]
                           ELSE [kind |-> "photo_saved", count |-> Len(st2.photos)],
                           "none", NoCall)

\* SellFormManager.handle_media(sender, message_data); dlOk is whether
\* _save_media returns, n the number of files written so far
handle_media(sts, n, sender, message_data, dlOk) ==
    IF sender \notin DOMAIN sts THEN Outcome(sts, EmptyReply, "none", NoCall)
    ELSE LET state == sts[sender] IN
         IF ~PyIndexOk(SELL_FORM_STEPS, state.step_index)
         THEN Outcome(sts, NoReply, "IndexError", NoCall)
         ELSE IF PyIndex(SELL_FORM_STEPS, state.step_index).type # "photos"
         THEN Outcome(sts, EmptyReply, "none", NoCall)
         ELSE IF message_data.typeMessage \notin MEDIA_MESSAGE_TYPES
         THEN Outcome(sts, EmptyReply, "none", NoCall)
         ELSE LET media == _extract_media(message_data) IN
              IF Falsy(media[1])
              THEN Outcome(sts, [kind |-> "cannot_read_attachment"], "none", NoCall)
              ELSE IF ~dlOk
              THEN Outcome(sts, [kind |-> "photo_not_saved"], "none", NoCall)
              ELSE LET st2 == AppendPhoto(state, _save_media(n + 1, media[2])) IN
                   Outcome(DictPut(sts, sender, st2),
                           IF Len(st2.photos) >= MAX_PHOTOS
                           THEN [kind |-> "enough_photos_write_done"]
                           ELSE [kind |-> "photo_saved", count |-> Len(st2.photos)],
                           "none", NoCall)

\* whether handle_media with these inputs writes a file
MediaStored(sts, sender, message_data, dlOk) ==
    /\ dlOk
    /\ sender \in DOMAIN sts
    /\ PyIndexOk(SELL_FORM_STEPS, sts[sender].step_index)
    /\ PyIndex(SELL_FORM_STEPS, sts[sender].step_index).type = "photos"
    /\ message_data.typeMessage \in MEDIA_MESSAGE_TYPES
    /\ ~Falsy(_extract_media(message_data)[1])

-----------------------------------------------------------------------------
(* buy.py: filter state *)

T_created == <<99, 114, 101, 97, 116, 101, 100>>  \* "created"
T_desc == <<100, 101, 115, 99>>  \* "desc"
T_asc == <<97, 115, 99>>  \* "asc"
T_price == <<112, 114, 105, 99, 101>>  \* "price"
T_lyuboj == <<1083, 1102, 1073, 1086, 1081>>  \* "любой"
T_dash == <<45>>  \* "-"
T_any == <<97, 110, 121>>  \* "any"
T_sortirovka == <<1089, 1086, 1088, 1090, 1080, 1088, 1086, 1074, 1082, 1072>>  \* "сортировка"
T_sort == <<1089, 1086, 1088, 1090>>  \* "сорт"
T_po_ == <<1087, 1086, 32>>  \* "по "
T_cena == <<1094, 1077, 1085, 1072>>  \* "цена"
T_cene == <<1094, 1077, 1085, 1077>>  \* "цене"
T_stoimost == <<1089, 1090, 1086, 1080, 1084, 1086, 1089, 1090, 1100>>  \* "стоимость"
T_data == <<1076, 1072, 1090, 1072>>  \* "дата"
T_date_latin_e == <<1076, 1072, 1090, 101>>  \* "датe", the last letter Latin
T_novye == <<1085, 1086, 1074, 1099, 1077>>  \* "новые"
T_new == <<110, 101, 119>>  \* "new"
T_vozrastanie == <<1074, 1086, 1079, 1088, 1072, 1089, 1090, 1072, 1085, 1080, 1077>>  \* "возрастание"
T_vozrastaniyu == <<1074, 1086, 1079, 1088, 1072, 1089, 1090, 1072, 1085, 1080, 1102>>  \* "возрастанию"
T_deshevle == <<1076, 1077, 1096, 1077, 1074, 1083, 1077>>  \* "дешевле"
T_min == <<109, 105, 110>>  \* "min"
T_minimum == <<1084, 1080, 1085, 1080, 1084, 1091, 1084>>  \* "минимум"
T_ubyvanie == <<1091, 1073, 1099, 1074, 1072, 1085, 1080, 1077>>  \* "убывание"
T_ubyvaniyu == <<1091, 1073, 1099, 1074, 1072, 1085, 1080, 1102>>  \* "убыванию"
T_dorozhe == <<1076, 1086, 1088, 1086, 1078, 1077>>  \* "дороже"
T_max == <<109, 97, 120>>  \* "max"
T_maksimum == <<1084, 1072, 1082, 1089, 1080, 1084, 1091, 1084>>  \* "максимум"
T_snachala_novye == <<1089, 1085, 1072, 1095, 1072, 1083, 1072, 32, 1085, 1086, 1074, 1099, 1077>>  \* "сначала новые"

PAGE_SIZE == 5

\* _new_filter_state()
_new_filter_state ==
    [page |-> PyInt(0),
     page_size |-> PyInt(PAGE_SIZE),
     min_price |-> PyNone,
     max_price |-> PyNone,
     year |-> PyNone,
     min_year |-> PyNone,
     max_year |-> PyNone,
     min_mileage |-> PyNone,
     max_mileage |-> PyNone,
     car_brand_id |-> PyNone,
     brand_name |-> PyNone,
     region |-> PyNone,
     condition |-> PyNone,
     sort_by |-> PyStr(T_created),
     sort_order |-> PyStr(T_desc)]

\* _ensure_state(sender): the mapping after setdefault of the sender's state
\* and of every key of the template
_ensure_state(flt, sender) ==
    LET template == _new_filter_state
        state == IF sender \in DOMAIN flt THEN flt[sender] ELSE template
    IN  DictPut(flt, sender,
                [k \in DOMAIN state \cup DOMAIN template |->
                    IF k \in DOMAIN state THEN state[k] ELSE template[k]])

_CONDITION_SYNONYMS ==
    [x \in {T_celyj, T_celaya, T_bez_dtp, T_ne_bityj, T_nebityj,
            T_posle_dtp, T_bityj, T_bitaya, T_remont, T_remontirovalsya} |->
        IF x \in {T_celyj, T_celaya, T_bez_dtp, T_ne_bityj, T_nebityj}
        THEN T_celyj ELSE T_posle_dtp]

_SORT_PRICE_TOKENS == {T_cena, T_cene, T_stoimost, T_price}
_SORT_DATE_TOKENS == {T_data, T_date_latin_e, T_novye, T_new, T_created}
_ASC_TOKENS == {T_vozrastanie, T_vozrastaniyu, T_deshevle, T_asc, T_min, T_minimum}
_DESC_TOKENS ==
    {T_ubyvanie, T_ubyvaniyu, T_dorozhe, T_desc, T_max, T_maksimum, T_novye,
     T_snachala_novye}

-----------------------------------------------------------------------------
(* state_filters.json *)

JNull == [jnull |-> TRUE]
JNum(n) == [jnum |-> n]
JStr(t) == [jstr |-> t]
JObj(m) == [jobj |-> m]
\* a file whose text is not a JSON document (a write that broke off)
JInvalid == [jinvalid |-> TRUE]

NoFile == [exists |-> FALSE]
FileWith(content) == [exists |-> TRUE, content |-> content]

\* json.dumps of None, an int or a str
PyToJson(v) ==
    IF v = PyNone THEN JNull
    ELSE IF "int" \in DOMAIN v THEN JNum(v.int)
    ELSE JStr(v.str)

\* json.loads of null, a number or a string
JsonToPy(j) ==
    IF j = JNull THEN PyNone
    ELSE IF "jnum" \in DOMAIN j THEN PyInt(j.jnum)
    ELSE PyStr(j.jstr)

\* json.dumps(_FILTER_STATE)
json_dumps(flt) ==
    JObj([s \in DOMAIN flt |->
            JObj([k \in DOMAIN flt[s] |-> PyToJson(flt[s][k])])])

\* a load that takes the file's entries as they are, without completing them
LoadWithoutEnsure(flt, f) ==
    IF ~f.exists THEN flt
    ELSE IF "jobj" \notin DOMAIN f.content THEN flt
    ELSE LET data == f.content.jobj
             dicts == {s \in DOMAIN data : "jobj" \in DOMAIN data[s]}
         IN  [s \in DOMAIN flt \cup dicts |->
                IF s \in dicts
                THEN [k \in DOMAIN data[s].jobj |-> JsonToPy(data[s].jobj[k])]
                ELSE flt[s]]

\* _load_filter_state(): entries of the file that are objects replace the
\* in-memory ones, then every state is completed; a missing or unreadable
\* file changes nothing
_load_filter_state(flt, f) ==
    IF ~f.exists THEN flt
    ELSE IF "jobj" \notin DOMAIN f.content THEN flt
    ELSE LET data == f.content.jobj
             dicts == {s \in DOMAIN data : "jobj" \in DOMAIN data[s]}
             updated == [s \in DOMAIN flt \cup dicts |->
                            IF s \in dicts
                            THEN [k \in DOMAIN data[s].jobj |-> JsonToPy(data[s].jobj[k])]
                            ELSE flt[s]]
             RECURSIVE EnsureAll(_, _)
             EnsureAll(m, todo) ==
                 IF todo = {} THEN m
                 ELSE LET s == CHOOSE x \in todo : TRUE
                      IN EnsureAll(_ensure_state(m, s), todo \ {s})
         IN EnsureAll(updated, DOMAIN updated)

\* Path.write_text: "ok" replaces the file, "denied" leaves it as it was,
\* "truncated" leaves a file that is not a JSON document
WriteText(f, content, wr) ==
    CASE wr = "ok" -> FileWith(content)
      [] wr = "denied" -> f
      [] OTHER -> FileWith(JInvalid)

-----------------------------------------------------------------------------
(* buy.py: filter operations.  Each gives the final mapping, the mapping
   handed to _persist_filter_state (when it is called), the reply and the
   exception that escapes; dbOk is whether the database answers. *)

Max(a, b) == IF a >= b THEN a ELSE b

\* the element of a set of one element: Only({e : v \in {d}}) is e with d
\* evaluated once and named v
Only(S) == CHOOSE r \in S : TRUE

\* what an operation does to _LAST_CATALOG and _LAST_DETAILS of a sender
KeepCache == [op |-> "keep"]
SetCache(sender, ids, details) ==
    [op |-> "set", sender |-> sender, ids |-> ids, details |-> details]
PopCache(sender) == [op |-> "pop", sender |-> sender]

FOut(final, persisted, snapshot, r, e) ==
    [filters |-> final, persisted |-> persisted, snapshot |-> snapshot,
     reply |-> r, exc |-> e, cache |-> KeepCache]

\* whether the row passes the conditions filter_ads and count_filtered_ads
\* build from the arguments _filter_public_ads hands them
AdMatches(ad, f) ==
    LET has(k) == DataGet(f, k) # PyNone IN
    /\ ad.is_active
    /\ has("car_brand_id") => ad.car_brand_id = f["car_brand_id"].int
    /\ has("min_price") => ad.price.int >= f["min_price"].int
    /\ has("max_price") => ad.price.int <= f["max_price"].int
    /\ has("year") => ad.year_car.int = f["year"].int
    /\ has("min_year") => ad.year_car.int >= f["min_year"].int
    /\ has("max_year") => ad.year_car.int <= f["max_year"].int
    /\ has("min_mileage") => ad.mileage_km_car.int >= f["min_mileage"].int
    /\ has("max_mileage") => ad.mileage_km_car.int <= f["max_mileage"].int
    /\ has("region") => ad.region = f["region"]
    /\ has("condition") => ad.condition = f["condition"]

\* the order of the listing: by price for sort_by = "price", else by
\* created_at; ascending for sort_order = "asc", else descending
AdBefore(f, a, b) ==
    LET key(x) == IF DataGet(f, "sort_by") = PyStr(T_price) THEN x.price.int
                  ELSE x.created_at
    IN  IF DataGet(f, "sort_order") = PyStr(T_asc) THEN key(a) < key(b)
        ELSE key(a) > key(b)

\* the rows of the store that pass the filters, in the order of the listing
FilteredAds(f) ==
    SortSeq(SelectSeq(store.ads, LAMBDA ad : AdMatches(ad, f)),
            LAMBDA a, b : AdBefore(f, a, b))

\* count_filtered_public_ads(filters)
count_filtered_public_ads(f) == Len(FilteredAds(f))

\* the dict _filter_public_ads makes of a row; photo is the first image
AdSummary(ad) ==
    LET imgs == SelectSeq(store.images, LAMBDA img : img.ad_id = ad.id) IN
    [id |-> ad.id, title |-> ad.title, price |-> ad.price, year |-> ad.year_car,
     mileage |-> ad.mileage_km_car, brand_id |-> ad.car_brand_id,
     model |-> ad.model_name, region |-> ad.region, condition |-> ad.condition,
     status |-> IF ad.is_active THEN "active" ELSE "processing",
     photo |-> IF imgs = <<>> THEN PyNone ELSE imgs[1].image_url,
     sender |-> ad.sender]

\* filter_public_ads(filters, page, page_size): limit page_size, offset
\* page * page_size
filter_public_ads(f, page, page_size) ==
    LET rows == FilteredAds(f)
        offset == page * page_size
        last == IF offset + page_size < Len(rows) THEN offset + page_size ELSE Len(rows)
    IN  [i \in 1..(IF last > offset THEN last - offset ELSE 0) |->
            AdSummary(rows[offset + i])]

\* total_pages = max(1, (total + size - 1) // size)
TotalPages(total, size) == Max(1, (total + size - 1) \div size)

\* the text of a catalog page: the header and one numbered line per row
CatalogText(state, total, ads) ==
    IF ads = <<>> THEN [kind |-> "no_ads"]
    ELSE [kind |-> "catalog",
          total |-> total,
          page |-> state["page"].int + 1,
          total_pages |-> TotalPages(total, state["page_size"].int),
          sort_desc |-> IF state["sort_by"] = PyStr(T_price)
                        THEN IF state["sort_order"] = PyStr(T_asc)
                             THEN "cheaper first" ELSE "dearer first"
                        ELSE "newest first",
          lines |-> [i \in 1..Len(ads) |->
                        [idx |-> i, title |-> ads[i].title, price |-> ads[i].price,
                         year |-> ads[i].year, mileage |-> ads[i].mileage,
                         id |-> ads[i].id]]]

\* a render that caches the ids of the first page, whatever page is shown
RenderCachesFirstPage(flt, sender, dbOk) ==
    LET m == _ensure_state(flt, sender)
        state == m[sender]
        total == count_filtered_public_ads(state)
        ads == filter_public_ads(state, state["page"].int, state["page_size"].int)
        first == filter_public_ads(state, 0, state["page_size"].int)
    IN  IF ~dbOk
        THEN [filters |-> m, reply |-> NoReply, exc |-> "DBError", cache |-> KeepCache]
        ELSE [filters |-> m, reply |-> CatalogText(state, total, ads), exc |-> "none",
              cache |-> SetCache(sender,
                                 [i \in 1..Len(first) |-> first[i].id],
                                 [id \in {first[i].id : i \in 1..Len(first)} |->
                                    LET i == CHOOSE k \in 1..Len(first) : first[k].id = id
                                    IN  first[i]])]

\* a render that reads the state without completing the stored one
RenderKeepsMissingKeys(flt, sender, dbOk) ==
    LET m == _ensure_state(flt, sender)
        state == m[sender]
        total == count_filtered_public_ads(state)
        ads == filter_public_ads(state, state["page"].int, state["page_size"].int)
        kept == IF sender \in DOMAIN flt THEN flt ELSE m
    IN  IF ~dbOk
        THEN [filters |-> kept, reply |-> NoReply, exc |-> "DBError", cache |-> KeepCache]
        ELSE [filters |-> kept, reply |-> CatalogText(state, total, ads), exc |-> "none",
              cache |-> SetCache(sender, [i \in 1..Len(ads) |-> ads[i].id], <<>>)]

\* _render_filtered(sender): the state is completed, the total and the page
\* are fetched, the ids and the rows are cached and the text is built; dbOk
\* is whether the store answers
_render_filtered(flt, sender, dbOk) ==
    LET page(m, state, ads) ==
            IF ~dbOk
            THEN [filters |-> m, reply |-> NoReply, exc |-> "DBError", cache |-> KeepCache]
            ELSE [filters |-> m,
                  reply |-> CatalogText(state, count_filtered_public_ads(state), ads),
                  exc |-> "none",
                  cache |-> SetCache(sender,
                                     [i \in 1..Len(ads) |-> ads[i].id],
                                     [id \in {ads[i].id : i \in 1..Len(ads)} |->
                                        LET i == CHOOSE k \in 1..Len(ads) : ads[k].id = id
                                        IN  ads[i]])]
        rows(m, state) ==
            Only({page(m, state, ads)
                  : ads \in {filter_public_ads(state, state["page"].int,
                                                state["page_size"].int)}})
    IN  Only({Only({rows(m, state) : state \in {m[sender]}})
              : m \in {_ensure_state(flt, sender)}})

\* navigation buttons with a next button on the last page too
NavButtonsNextOnLastPage(flt, sender, dbOk) ==
    LET m == _ensure_state(flt, sender)
        state == m[sender]
        page == state["page"].int
        total_pages == TotalPages(count_filtered_public_ads(state), state["page_size"].int)
    IN  IF ~dbOk THEN [filters |-> m, buttons |-> <<>>, exc |-> "DBError"]
        ELSE [filters |-> m,
              buttons |-> (IF page > 0 THEN <<"prev">> ELSE <<>>)
                          \o (IF page + 1 <= total_pages THEN <<"next">> ELSE <<>>)
                          \o <<"refresh", "back_menu">>,
              exc |-> "none"]

\* _nav_buttons(sender)
_nav_buttons(flt, sender, dbOk) ==
    LET m == _ensure_state(flt, sender)
        state == m[sender]
        page == state["page"].int
        total_pages == TotalPages(count_filtered_public_ads(state), state["page_size"].int)
    IN  IF ~dbOk THEN [filters |-> m, buttons |-> <<>>, exc |-> "DBError"]
        ELSE [filters |-> m,
              buttons |-> (IF page > 0 THEN <<"prev">> ELSE <<>>)
                          \o (IF page + 1 < total_pages THEN <<"next">> ELSE <<>>)
                          \o <<"refresh", "back_menu">>,
              exc |-> "none"]

\* _send_catalog(notification, sender): the page and the buttons in one
\* interactive message; nothing is persisted
_send_catalog(flt, sender, dbOk, navOk) ==
    LET message(r, b) ==
            IF r.exc # "none"
            THEN [FOut(r.filters, FALSE, flt, NoReply, r.exc) EXCEPT !.cache = r.cache]
            ELSE IF b.exc # "none"
            THEN [FOut(b.filters, FALSE, flt, NoReply, b.exc) EXCEPT !.cache = r.cache]
            ELSE [FOut(b.filters, FALSE, flt,
                       [kind |-> "interactive", body |-> r.reply, buttons |-> b.buttons],
                       "none")
                  EXCEPT !.cache = r.cache]
    IN  Only({Only({message(r, b) : b \in {_nav_buttons(r.filters, sender, navOk)}})
              : r \in {_render_filtered(flt, sender, dbOk)}})

\* _render_filtered(sender) after the mapping flt was persisted
Rendered(flt, sender, dbOk) ==
    LET persisted(r) == [FOut(r.filters, TRUE, flt, r.reply, r.exc) EXCEPT !.cache = r.cache]
    IN  Only({persisted(r) : r \in {_render_filtered(flt, sender, dbOk)}})

\* the groups of digits of re.findall(r"\d+", text)
RECURSIVE TakeDigits(_)
TakeDigits(s) ==
    IF s = <<>> \/ ~IsDigit(Head(s)) THEN <<>> ELSE <<Head(s)>> \o TakeDigits(Tail(s))

RECURSIVE DigitGroups(_)
DigitGroups(s) ==
    IF s = <<>> THEN <<>>
    ELSE IF ~IsDigit(Head(s)) THEN DigitGroups(Tail(s))
    ELSE LET g == TakeDigits(s) IN <<g>> \o DigitGroups(SubSeq(s, Len(g) + 1, Len(s)))

\* a parser that takes the first and the last group
ParseRangeFirstLast(text) ==
    LET groups == DigitGroups(text)
        numbers == [i \in 1..Len(groups) |-> PyInt(DigitsValue(groups[i], 0))]
    IN  IF numbers = <<>> THEN <<PyNone, PyNone>>
        ELSE IF Len(numbers) = 1 THEN <<numbers[1], PyNone>>
        ELSE <<numbers[1], numbers[Len(numbers)]>>

\* _parse_range(text)
_parse_range(text) ==
    LET numbers == [i \in 1..Len(DigitGroups(text)) |->
                        PyInt(DigitsValue(DigitGroups(text)[i], 0))]
    IN  IF numbers = <<>> THEN <<PyNone, PyNone>>
        ELSE IF Len(numbers) = 1 THEN <<numbers[1], PyNone>>
        ELSE <<numbers[1], numbers[2]>>

\* str.isdigit() for the characters of the inputs: not empty, digits only
IsDigitStr(s) == s # <<>> /\ \A i \in 1..Len(s) : IsDigit(s[i])

\* "id"
T_id == <<105, 100>>

\* what _extract_public_id returns and what it does on the way
PublicId(flt, snapshot, value, e, cache) ==
    [FOut(flt, FALSE, snapshot, [kind |-> "public_id", value |-> value], e)
     EXCEPT !.cache = cache]

\* a lookup that takes the position from 0
ExtractPublicIdFromZero(flt, cat, sender, text, dbOk) ==
    LET cleaned == Lower(Strip(text))
        digits == DigitGroups(cleaned)
        num == DigitsValue(cleaned, 0)
        ids == IF sender \in DOMAIN cat THEN cat[sender] ELSE <<>>
        fresh(r) ==
            IF r.exc # "none" THEN PublicId(r.filters, flt, PyNone, r.exc, KeepCache)
            ELSE PublicId(r.filters, flt,
                          IF r.cache.ids # <<>> /\ 0 <= num /\ num < Len(r.cache.ids)
                          THEN PyInt(r.cache.ids[num + 1]) ELSE PyInt(num),
                          "none", r.cache)
    IN  IF StartsWith(cleaned, T_id)
        THEN PublicId(flt, flt, IF digits # <<>> THEN PyInt(DigitsValue(digits[1], 0))
                                ELSE PyNone, "none", KeepCache)
        ELSE IF ~IsDigitStr(cleaned) \/ num <= 0
        THEN PublicId(flt, flt, PyNone, "none", KeepCache)
        ELSE IF ids = <<>> \/ num > Len(ids)
        THEN Only({fresh(r) : r \in {_render_filtered(flt, sender, dbOk)}})
        ELSE PublicId(flt, flt,
                      IF num < Len(ids) THEN PyInt(ids[num + 1]) ELSE PyInt(num),
                      "none", KeepCache)

\* _extract_public_id(sender, text), cat being _LAST_CATALOG; fresh is the
\* part after the render that fills the cache
_extract_public_id(flt, cat, sender, text, dbOk) ==
    LET cleaned == Lower(Strip(text))
        digits == DigitGroups(cleaned)
        num == DigitsValue(cleaned, 0)
        ids == IF sender \in DOMAIN cat THEN cat[sender] ELSE <<>>
        fresh(r) ==
            IF r.exc # "none" THEN PublicId(r.filters, flt, PyNone, r.exc, KeepCache)
            ELSE PublicId(r.filters, flt,
                          IF r.cache.ids # <<>> /\ 1 <= num /\ num <= Len(r.cache.ids)
                          THEN PyInt(r.cache.ids[num]) ELSE PyInt(num),
                          "none", r.cache)
    IN  IF StartsWith(cleaned, T_id)
        THEN PublicId(flt, flt, IF digits # <<>> THEN PyInt(DigitsValue(digits[1], 0))
                                ELSE PyNone, "none", KeepCache)
        ELSE IF ~IsDigitStr(cleaned) \/ num <= 0
        THEN PublicId(flt, flt, PyNone, "none", KeepCache)
        ELSE IF ids = <<>> \/ num > Len(ids)
        THEN Only({fresh(r) : r \in {_render_filtered(flt, sender, dbOk)}})
        ELSE PublicId(flt, flt, PyInt(ids[num]), "none", KeepCache)

\* a page shift without the floor at 0
ShiftPageNoFloor(flt, sender, delta) ==
    LET m == _ensure_state(flt, sender)
        page == m[sender]["page"].int + delta
        m2 == [m EXCEPT ![sender]["page"] = PyInt(page)]
    IN  FOut(m2, TRUE, m2, NoReply, "none")

\* _shift_page(sender, delta)
_shift_page(flt, sender, delta) ==
    LET m == _ensure_state(flt, sender)
        page == m[sender]["page"].int + delta
        m2 == [m EXCEPT ![sender]["page"] = PyInt(Max(0, page))]
    IN  FOut(m2, TRUE, m2, NoReply, "none")

\* a reset that puts the defaults in place and leaves the caches
ResetFiltersKeepCaches(flt, sender) ==
    LET m == DictPut(flt, sender, _new_filter_state)
    IN  FOut(m, TRUE, m, NoReply, "none")

\* _reset_filters(sender)
_reset_filters(flt, sender) ==
    LET m == DictPut(flt, sender, _new_filter_state)
    IN  [FOut(m, TRUE, m, NoReply, "none") EXCEPT !.cache = PopCache(sender)]

\* _update_price_filter(sender, text)
_update_price_filter(flt, sender, text, dbOk) ==
    LET range == _parse_range(text)
        m == _ensure_state(flt, sender)
        m2 == [m EXCEPT ![sender]["min_price"] = range[1],
                        ![sender]["max_price"] = range[2],
                        ![sender]["page"] = PyInt(0)]
    IN  Rendered(m2, sender, dbOk)

\* bool(x) for None or an int
Truthy(x) == x # PyNone /\ x # PyInt(0)

\* a year update whose single-year branch leaves the range as it was
YearKeepsRange(flt, sender, text, dbOk) ==
    LET range == _parse_range(text)
        low == range[1]
        high == range[2]
        m == _ensure_state(flt, sender)
        st == IF Truthy(low) /\ Truthy(high) /\ low # high
              THEN [m[sender] EXCEPT !["year"] = PyNone,
                                     !["min_year"] = low,
                                     !["max_year"] = high]
              ELSE [m[sender] EXCEPT !["year"] = low]
        m2 == DictPut(m, sender, DictPut(st, "page", PyInt(0)))
    IN  Rendered(m2, sender, dbOk)

\* _update_year_filter(sender, text)
_update_year_filter(flt, sender, text, dbOk) ==
    LET range == _parse_range(text)
        low == range[1]
        high == range[2]
        m == _ensure_state(flt, sender)
        st == IF Truthy(low) /\ Truthy(high) /\ low # high
              THEN [m[sender] EXCEPT !["year"] = PyNone,
                                     !["min_year"] = low,
                                     !["max_year"] = high]
              ELSE DictPop(DictPop([m[sender] EXCEPT !["year"] = low],
                                   "min_year"), "max_year")
        m2 == DictPut(m, sender, DictPut(st, "page", PyInt(0)))
    IN  Rendered(m2, sender, dbOk)

\* a mileage update that leaves the page where it was
MileageKeepsPage(flt, sender, text, dbOk) ==
    LET range == _parse_range(text)
        m == _ensure_state(flt, sender)
        m2 == [m EXCEPT ![sender]["min_mileage"] = range[1],
                        ![sender]["max_mileage"] = range[2]]
    IN  Rendered(m2, sender, dbOk)

\* _update_mileage_filter(sender, text)
_update_mileage_filter(flt, sender, text, dbOk) ==
    LET range == _parse_range(text)
        m == _ensure_state(flt, sender)
        m2 == [m EXCEPT ![sender]["min_mileage"] = range[1],
                        ![sender]["max_mileage"] = range[2],
                        ![sender]["page"] = PyInt(0)]
    IN  Rendered(m2, sender, dbOk)

\* _update_brand_filter(sender, text)
_update_brand_filter(flt, sender, text, dbOk) ==
    LET parts == SplitMax1(text) IN
    IF Len(parts) < 2
    THEN FOut(flt, FALSE, flt, [kind |-> "brand_usage"], "none")
    ELSE IF ~dbOk THEN FOut(flt, FALSE, flt, NoReply, "DBError")
    ELSE LET brand == get_brand_by_name(Strip(parts[2])) IN
         IF brand = PyNone
         THEN FOut(flt, FALSE, flt, [kind |-> "brand_not_found"], "none")
         ELSE LET m == _ensure_state(flt, sender)
                  m2 == [m EXCEPT ![sender]["car_brand_id"] = PyInt(brand.id),
                                  ![sender]["brand_name"] = PyStr(brand.name),
                                  ![sender]["page"] = PyInt(0)]
              IN  Rendered(m2, sender, dbOk)

\* a region update that resets the page before it refuses a short name
RegionShortResetsPage(flt, sender, text, dbOk) ==
    LET parts == SplitMax1(text) IN
    IF Len(parts) < 2
    THEN FOut(flt, FALSE, flt, [kind |-> "region_usage"], "none")
    ELSE LET region == Strip(parts[2])
             m == _ensure_state(flt, sender)
             m0 == [m EXCEPT ![sender]["page"] = PyInt(0)]
         IN  IF region = <<>> \/ region \in {T_lyuboj, T_dash, T_any}
             THEN Rendered([m EXCEPT ![sender]["region"] = PyNone,
                                     ![sender]["page"] = PyInt(0)], sender, dbOk)
             ELSE IF Len(region) < 2
             THEN FOut(m0, FALSE, m0, [kind |-> "region_too_short"], "none")
             ELSE Rendered([m EXCEPT ![sender]["region"] = PyStr(Title(region)),
                                     ![sender]["page"] = PyInt(0)], sender, dbOk)

\* _update_region_filter(sender, text)
_update_region_filter(flt, sender, text, dbOk) ==
    LET parts == SplitMax1(text) IN
    IF Len(parts) < 2
    THEN FOut(flt, FALSE, flt, [kind |-> "region_usage"], "none")
    ELSE LET region == Strip(parts[2])
             m == _ensure_state(flt, sender)
         IN  IF region = <<>> \/ region \in {T_lyuboj, T_dash, T_any}
             THEN Rendered([m EXCEPT ![sender]["region"] = PyNone,
                                     ![sender]["page"] = PyInt(0)], sender, dbOk)
             ELSE IF Len(region) < 2
             THEN FOut(m, FALSE, m, [kind |-> "region_too_short"], "none")
             ELSE Rendered([m EXCEPT ![sender]["region"] = PyStr(Title(region)),
                                     ![sender]["page"] = PyInt(0)], sender, dbOk)

\* a normalisation that compares the text as typed, without lower()
NormalizeConditionCased(value) ==
    LET cleaned == Strip(value) IN
    IF cleaned = <<>> \/ cleaned \in {T_lyuboj, T_dash, T_any} THEN <<PyNone, TRUE>>
    ELSE IF cleaned \in DOMAIN _CONDITION_SYNONYMS
    THEN <<PyStr(_CONDITION_SYNONYMS[cleaned]), TRUE>>
    ELSE <<PyNone, FALSE>>

\* _normalize_condition(value): (canonical, ok)
_normalize_condition(value) ==
    LET cleaned == Lower(Strip(value)) IN
    IF cleaned = <<>> \/ cleaned \in {T_lyuboj, T_dash, T_any} THEN <<PyNone, TRUE>>
    ELSE IF cleaned \in DOMAIN _CONDITION_SYNONYMS
    THEN <<PyStr(_CONDITION_SYNONYMS[cleaned]), TRUE>>
    ELSE <<PyNone, FALSE>>

\* _update_condition_filter(sender, text)
_update_condition_filter(flt, sender, text, dbOk) ==
    LET parts == SplitMax1(text) IN
    IF Len(parts) < 2
    THEN FOut(flt, FALSE, flt, [kind |-> "condition_usage"], "none")
    ELSE LET norm == _normalize_condition(parts[2]) IN
         IF ~norm[2]
         THEN FOut(flt, FALSE, flt, [kind |-> "condition_not_understood"], "none")
         ELSE LET m == _ensure_state(flt, sender) IN
              Rendered([m EXCEPT ![sender]["condition"] = norm[1],
                                 ![sender]["page"] = PyInt(0)], sender, dbOk)

\* _strip_sort_command(text)
_strip_sort_command(text) ==
    LET cleaned == Lower(Strip(text))
        body == IF StartsWith(cleaned, T_sortirovka)
                THEN Strip(SubSeq(cleaned, Len(T_sortirovka) + 1, Len(cleaned)))
                ELSE IF StartsWith(cleaned, T_sort)
                THEN Strip(SubSeq(cleaned, Len(T_sort) + 1, Len(cleaned)))
                ELSE cleaned
    IN  IF StartsWith(body, T_po_) THEN SubSeq(body, 4, Len(body)) ELSE body

\* a direction choice that tests the descending tokens first
SortOrderDescFirst(rest) ==
    IF \E i \in 1..Len(rest) : rest[i] \in _DESC_TOKENS THEN T_desc
    ELSE IF \E i \in 1..Len(rest) : rest[i] \in _ASC_TOKENS THEN T_asc
    ELSE T_desc

\* _update_sorting, lines 660-667: the direction chosen by the tokens after
\* the key
SortOrder(rest) ==
    IF \E i \in 1..Len(rest) : rest[i] \in _ASC_TOKENS THEN T_asc
    ELSE IF \E i \in 1..Len(rest) : rest[i] \in _DESC_TOKENS THEN T_desc
    ELSE T_desc

\* _update_sorting(sender, text)
_update_sorting(flt, sender, text, dbOk) ==
    LET body == _strip_sort_command(text) IN
    IF body = <<>>
    THEN FOut(flt, FALSE, flt, [kind |-> "sort_usage"], "none")
    ELSE LET tokens == Split(body)
             key_token == tokens[1]
         IN  IF key_token \notin _SORT_PRICE_TOKENS \cup _SORT_DATE_TOKENS
             THEN FOut(flt, FALSE, flt, [kind |-> "sort_key_hint"], "none")
             ELSE LET sort_by == IF key_token \in _SORT_PRICE_TOKENS
                                 THEN T_price ELSE T_created
                      m == _ensure_state(flt, sender)
                  IN  Rendered([m EXCEPT ![sender]["sort_by"] = PyStr(sort_by),
                                         ![sender]["sort_order"] = PyStr(SortOrder(Tail(tokens))),
                                         ![sender]["page"] = PyInt(0)], sender, dbOk)

-----------------------------------------------------------------------------
(* Inbound events offered by the environment *)

In_Otmena == <<32, 1054, 1090, 1084, 1077, 1085, 1072, 32>>  \* " Отмена "
In_MENU == <<77, 69, 78, 85>>  \* "MENU"
In_Gotovo == <<1043, 1086, 1090, 1086, 1074, 1086>>  \* "Готово"
In_done == <<100, 111, 110, 101>>  \* "done"
In_remontirovalsya == <<1088, 1077, 1084, 1086, 1085, 1090, 1080, 1088, 1086, 1074, 1072, 1083, 1089, 1103>>  \* "ремонтировался"
In_2020 == <<50, 48, 50, 48>>  \* "2020"
In_0 == <<48>>  \* "0"
In_blank == <<32, 32>>  \* "  "
In_url == <<104, 116, 116, 112, 58, 47, 47, 104, 47, 102>>  \* "http://h/f"
In_car_png == <<99, 97, 114, 46, 112, 110, 103>>  \* "car.png"

Cmd_cena_range == <<1094, 1077, 1085, 1072, 32, 49, 48, 48, 48, 48, 48, 45, 50, 48, 48, 48, 48, 48>>  \* "цена 100000-200000"
Cmd_cena == <<1094, 1077, 1085, 1072>>  \* "цена"
Cmd_god_2015 == <<1075, 1086, 1076, 32, 50, 48, 49, 53>>  \* "год 2015"
Cmd_god_range == <<1075, 1086, 1076, 32, 50, 48, 49, 48, 45, 50, 48, 49, 53>>  \* "год 2010-2015"
Cmd_god == <<1075, 1086, 1076>>  \* "год"
Cmd_god_same == <<1075, 1086, 1076, 32, 50, 48, 49, 53, 45, 50, 48, 49, 53>>  \* "год 2015-2015"
Cmd_god_zero == <<1075, 1086, 1076, 32, 48, 45, 50, 48, 49, 53>>  \* "год 0-2015"
Cmd_probeg_range == <<1087, 1088, 1086, 1073, 1077, 1075, 32, 48, 45, 49, 53, 48, 48, 48, 48>>  \* "пробег 0-150000"
Cmd_marka_toyota == <<1084, 1072, 1088, 1082, 1072, 32, 116, 111, 121, 111, 116, 97>>  \* "марка toyota"
Cmd_marka_lada == <<1084, 1072, 1088, 1082, 1072, 32, 108, 97, 100, 97>>  \* "марка lada"
Cmd_marka == <<1084, 1072, 1088, 1082, 1072>>  \* "марка"
Cmd_region_mahachkala == <<1088, 1077, 1075, 1080, 1086, 1085, 32, 1084, 1072, 1093, 1072, 1095, 1082, 1072, 1083, 1072>>  \* "регион махачкала"
Cmd_region_lyuboj == <<1088, 1077, 1075, 1080, 1086, 1085, 32, 1083, 1102, 1073, 1086, 1081>>  \* "регион любой"
Cmd_region_Lyuboj == <<1088, 1077, 1075, 1080, 1086, 1085, 32, 1051, 1102, 1073, 1086, 1081>>  \* "регион Любой"
Cmd_region_m == <<1088, 1077, 1075, 1080, 1086, 1085, 32, 1084>>  \* "регион м"
Cmd_region == <<1088, 1077, 1075, 1080, 1086, 1085>>  \* "регион"
Cmd_sostoyanie_posle_DTP == <<1089, 1086, 1089, 1090, 1086, 1103, 1085, 1080, 1077, 32, 1087, 1086, 1089, 1083, 1077, 32, 1044, 1058, 1055>>  \* "состояние после ДТП"
Cmd_sostoyanie_celyj == <<1089, 1086, 1089, 1090, 1086, 1103, 1085, 1080, 1077, 32, 1094, 1077, 1083, 1099, 1081>>  \* "состояние целый"
Cmd_sostoyanie_Lyuboj == <<1089, 1086, 1089, 1090, 1086, 1103, 1085, 1080, 1077, 32, 1051, 1102, 1073, 1086, 1081>>  \* "состояние Любой"
Cmd_sostoyanie_novyj == <<1089, 1086, 1089, 1090, 1086, 1103, 1085, 1080, 1077, 32, 1085, 1086, 1074, 1099, 1081>>  \* "состояние новый"
Cmd_sostoyanie == <<1089, 1086, 1089, 1090, 1086, 1103, 1085, 1080, 1077>>  \* "состояние"
Cmd_sort_cena_deshevle == <<1089, 1086, 1088, 1090, 32, 1094, 1077, 1085, 1072, 32, 1076, 1077, 1096, 1077, 1074, 1083, 1077>>  \* "сорт цена дешевле"
Cmd_sortirovka_data == <<1089, 1086, 1088, 1090, 1080, 1088, 1086, 1074, 1082, 1072, 32, 1076, 1072, 1090, 1072>>  \* "сортировка дата"
Cmd_sort_po_cene == <<1089, 1086, 1088, 1090, 32, 1087, 1086, 32, 1094, 1077, 1085, 1077>>  \* "сорт по цене"
Cmd_sort_cena_deshevle_dorozhe == <<1089, 1086, 1088, 1090, 32, 1094, 1077, 1085, 1072, 32, 1076, 1077, 1096, 1077, 1074, 1083, 1077, 32, 1076, 1086, 1088, 1086, 1078, 1077>>  \* "сорт цена дешевле дороже"
Cmd_sort_data_dorozhe_deshevle == <<1089, 1086, 1088, 1090, 32, 1076, 1072, 1090, 1072, 32, 1076, 1086, 1088, 1086, 1078, 1077, 32, 1076, 1077, 1096, 1077, 1074, 1083, 1077>>  \* "сорт дата дороже дешевле"
Cmd_sort_cvet == <<1089, 1086, 1088, 1090, 32, 1094, 1074, 1077, 1090>>  \* "сорт цвет"
Cmd_sort == <<1089, 1086, 1088, 1090>>  \* "сорт"

\* the sender browsing the catalog
FilterSenders == {"u1"}

PriceTexts == {Cmd_cena_range, Cmd_cena}
YearTexts == {Cmd_god_2015, Cmd_god_range, Cmd_god}
\* year commands with equal bounds and with a zero bound
YearEdgeTexts == {Cmd_god_same, Cmd_god_zero}
MileageTexts == {Cmd_probeg_range}
BrandTexts == {Cmd_marka_toyota, Cmd_marka_lada, Cmd_marka}
RegionTexts ==
    {Cmd_region_mahachkala, Cmd_region_lyuboj, Cmd_region_Lyuboj, Cmd_region_m,
     Cmd_region}
\* «состояние X»: five samples, then every synonym and sentinel as written in
\* the tables, and some in another letter case
ConditionSamples ==
    {Cmd_sostoyanie_posle_DTP, Cmd_sostoyanie_celyj, Cmd_sostoyanie_Lyuboj,
     Cmd_sostoyanie_novyj, Cmd_sostoyanie}
ConditionTexts ==
    ConditionSamples
    \cup {Cmd_sostoyanie \o <<32>> \o x :
            x \in DOMAIN _CONDITION_SYNONYMS \cup {T_lyuboj, T_dash, T_any}}
    \cup {Cmd_sostoyanie \o <<32>> \o Title(x) : x \in {T_remont, T_any}}
SortSamples == {Cmd_sort_cena_deshevle, Cmd_sort_cvet, Cmd_sort}
SortTexts ==
    {Cmd_sort_cena_deshevle, Cmd_sortirovka_data, Cmd_sort_po_cene,
     Cmd_sort_cena_deshevle_dorozhe, Cmd_sort_data_dorozhe_deshevle,
     Cmd_sort_cvet, Cmd_sort}
\* page shifts: the buttons give +1 and -1
PageDeltas == {-5, -1, 1, 2}
\* outcomes of Path.write_text
WriteOutcomes == {"ok", "denied", "truncated"}

\* the sender filling in the sell form
FormSenders == {"u1"}

\* texts sent while a form is active
FormMessages ==
    {PyNone, PyStr(<<>>), PyStr(In_blank), PyStr(In_Otmena), PyStr(In_MENU),
     PyStr(In_Gotovo), PyStr(In_done), PyStr(In_remontirovalsya), PyStr(In_2020)}

\* a row of ads as a listing holds it: Car<n>, VIN0<n>, brand 1
SeedAd(n, price, year, mileage, active) ==
    [id |-> n, created_at |-> n, sender |-> "u2",
     title |-> PyStr(<<67, 97, 114, 48 + n>>),
     description |-> PyStr(In_remontirovalsya),
     price |-> PyInt(price), year_car |-> PyInt(year), car_brand_id |-> 1,
     model_name |-> PyNone, mileage_km_car |-> PyInt(mileage),
     vin_number |-> PyStr(<<86, 73, 78, 48, 48 + n>>),
     region |-> PyNone, condition |-> PyStr(T_celyj),
     day_count |-> 7, is_active |-> active]

\* a store with seven active ads and one that is not, of distinct prices and
\* creation times; two pages without filters, one full page for the years
\* 2010-2015, four rows for the prices 100000-200000
SeededStore ==
    [ads |-> << SeedAd(1, 150000, 2015, 100000, TRUE),
                SeedAd(2, 90000, 2010, 200000, TRUE),
                SeedAd(3, 250000, 2020, 50000, TRUE),
                SeedAd(4, 120000, 2012, 150000, TRUE),
                SeedAd(5, 180000, 2015, 120000, TRUE),
                SeedAd(6, 300000, 2022, 10000, TRUE),
                SeedAd(7, 110000, 2011, 160000, TRUE),
                SeedAd(8, 130000, 2013, 140000, FALSE) >>,
     images |-> << [ad_id |-> 1, image_url |-> [path |-> 0, ext |-> T_dot_jpg]] >>,
     brands |-> CarBrands]

\* the six cancel keywords as typed in lower case, capitalised, and in upper
\* case with blanks around
CancelKeywords == {T_otmena, T_cancel, T_stop_ru, T_stop, T_menyu, T_menu}
CancelMessages ==
    {PyStr(w) : w \in CancelKeywords}
    \cup {PyStr(Title(w)) : w \in CancelKeywords}
    \cup {PyStr(<<32>> \o [i \in 1..Len(w) |-> UpperChar(w[i])] \o <<32, 10>>) :
            w \in CancelKeywords}

\* the texts a sender who fills in the form answers step i with: a number for
\* price, year and mileage, one of two VINs, «Готово» on the photo step
AnswerTexts(i) ==
    IF ~PyIndexOk(SELL_FORM_STEPS, i) THEN {In_Gotovo}
    ELSE LET step == PyIndex(SELL_FORM_STEPS, i) IN
         IF step.key \in {"price", "year", "mileage"} THEN {In_2020}
         ELSE IF step.type = "photos" THEN {In_Gotovo}
         ELSE IF step.key = "vin" THEN {In_remontirovalsya, In_Gotovo}
         ELSE {In_remontirovalsya}

\* the texts of a sender who answers the question asked; In_2020 once no
\* form is active
AnswersOf(s) ==
    IF s \in DOMAIN states THEN AnswerTexts(states[s].step_index) ELSE {In_2020}

\* messageData of inbound events
MediaMessages ==
    {[typeMessage |-> "imageMessage",
      fileMessageData |-> [downloadUrl |-> PyStr(In_url), fileName |-> PyStr(In_car_png)],
      imageMessageData |-> PyNone],
     [typeMessage |-> "documentMessage",
      fileMessageData |-> PyNone,
      imageMessageData |-> [downloadUrl |-> PyStr(In_url), fileName |-> PyNone]],
     [typeMessage |-> "imageMessage",
      fileMessageData |-> [downloadUrl |-> PyNone, fileName |-> PyNone],
      imageMessageData |-> PyNone],
     [typeMessage |-> "imageMessage",
      fileMessageData |-> PyNone,
      imageMessageData |-> PyNone],
     [typeMessage |-> "textMessage",
      fileMessageData |-> [downloadUrl |-> PyStr(In_url), fileName |-> PyNone],
      imageMessageData |-> PyNone]}

-----------------------------------------------------------------------------
(* Sell form: actions *)

\* what a form operation with outcome res does to the form, the reply and
\* the store
FormEffect(res) ==
    \E o \in {res} :
        /\ states' = o.states
        /\ reply' = o.reply
        /\ exc' = o.exc
        /\ call' = o.call
        /\ store' = o.store

\* the effect of a form operation with outcome res, called on its own
Apply(res) == FormEffect(res) /\ UNCHANGED entryVars

\* a start that keeps an unfinished form (setdefault instead of assignment)
StartKeepsPrior(s) ==
    /\ Apply(Outcome(IF s \in DOMAIN states THEN states
                     ELSE DictPut(states, s, SellFormState),
                     [kind |-> "start_prompt", step |-> 0], "none", NoCall))
    /\ UNCHANGED <<nextFile, filterVars, cacheVars>>

\* SellFormManager.start(sender)
Start(s) ==
    /\ Apply(Outcome(DictPut(states, s, SellFormState),
                     [kind |-> "start_prompt", step |-> 0], "none", NoCall))
    /\ UNCHANGED <<nextFile, filterVars, cacheVars>>

\* SellFormManager.cancel(sender)
Cancel(s) ==
    /\ Apply(Outcome(DictPop(states, s), NoReply, "none", NoCall))
    /\ UNCHANGED <<nextFile, filterVars, cacheVars>>

\* SellFormManager.handle(sender, message)
Handle(s, message, db) ==
    /\ Len(store.ads) < MaxNewAds \/ db = DbDown
    /\ Apply(handle(states, s, message, db))
    /\ UNCHANGED <<nextFile, filterVars, cacheVars>>

\* SellFormManager.handle_media(sender, message_data)
HandleMedia(s, message_data, dlOk) ==
    /\ dlOk => nextFile < MaxUploads
    /\ Apply(handle_media(states, nextFile, s, message_data, dlOk))
    /\ nextFile' = IF MediaStored(states, s, message_data, dlOk)
                   THEN nextFile + 1 ELSE nextFile
    /\ UNCHANGED <<filterVars, cacheVars>>

-----------------------------------------------------------------------------
(* Buy filters: actions *)

\* the sender's page, 0 when the sender has no state yet
PageOf(flt, s) == IF s \in DOMAIN flt THEN flt[s]["page"].int ELSE 0

\* what a filter operation with outcome res, whose write of the file (when
\* it writes) ends as wr, does to the filters, the file and the caches
FilterEffect(res, wr) ==
    /\ wr # "ok" => failedWrites < MaxWriteFailures
    /\ \E o \in {res} :
        /\ wr # "ok" => o.persisted
        /\ filters' = o.filters
        /\ file' = IF o.persisted THEN WriteText(file, json_dumps(o.snapshot), wr) ELSE file
        /\ lastWriteOk' = IF o.persisted THEN wr = "ok" ELSE lastWriteOk
        /\ failedWrites' = IF wr # "ok" THEN failedWrites + 1 ELSE failedWrites
        /\ reply' = o.reply
        /\ exc' = o.exc
        /\ call' = NoCall
        /\ lastCatalog' = CASE o.cache.op = "set" ->
                                 DictPut(lastCatalog, o.cache.sender, o.cache.ids)
                             [] o.cache.op = "pop" -> DictPop(lastCatalog, o.cache.sender)
                             [] OTHER -> lastCatalog
        /\ lastDetails' = CASE o.cache.op = "set" ->
                                 DictPut(lastDetails, o.cache.sender, o.cache.details)
                             [] o.cache.op = "pop" -> DictPop(lastDetails, o.cache.sender)
                             [] OTHER -> lastDetails
        /\ lastViewed' = IF o.cache.op = "pop"
                          THEN DictPop(lastViewed, o.cache.sender) ELSE lastViewed
        /\ searchWait' = IF o.cache.op = "pop"
                          THEN DictPop(searchWait, o.cache.sender) ELSE searchWait
        /\ UNCHANGED <<states, nextFile, store, lastSummaries>>

\* the effect of a filter operation called on its own
ApplyFilter(res, wr) == FilterEffect(res, wr) /\ UNCHANGED entryVars

ShiftPage(s, delta, wr) ==
    /\ PageOf(filters, s) + delta <= MaxPage
    /\ ApplyFilter(_shift_page(filters, s, delta), wr)

ResetFilters(s, wr) == ApplyFilter(_reset_filters(filters, s), wr)

UpdatePriceFilter(s, text, wr, dbOk) ==
    ApplyFilter(_update_price_filter(filters, s, text, dbOk), wr)

UpdateYearFilter(s, text, wr, dbOk) ==
    ApplyFilter(_update_year_filter(filters, s, text, dbOk), wr)

UpdateMileageFilter(s, text, wr, dbOk) ==
    ApplyFilter(_update_mileage_filter(filters, s, text, dbOk), wr)

UpdateBrandFilter(s, text, wr, dbOk) ==
    ApplyFilter(_update_brand_filter(filters, s, text, dbOk), wr)

UpdateRegionFilter(s, text, wr, dbOk) ==
    ApplyFilter(_update_region_filter(filters, s, text, dbOk), wr)

UpdateConditionFilter(s, text, wr, dbOk) ==
    ApplyFilter(_update_condition_filter(filters, s, text, dbOk), wr)

UpdateSorting(s, text, wr, dbOk) ==
    ApplyFilter(_update_sorting(filters, s, text, dbOk), wr)

\* _send_catalog(notification, sender)
SendCatalog(s, dbOk, navOk) ==
    ApplyFilter(_send_catalog(filters, s, dbOk, navOk), "ok")

\* _build_filter_text(sender): reads the state, creating it when missing
BuildFilterText(s) ==
    ApplyFilter(FOut(_ensure_state(filters, s), FALSE, filters,
                     [kind |-> "filter_text"], "none"), "ok")

-----------------------------------------------------------------------------
(* guard.py: who may talk to the bot *)

\* the chat ids behind the sender names of the model
Chat_1 == <<49, 64, 99, 46, 117, 115>>  \* "1@c.us"
Chat_2 == <<50, 64, 99, 46, 117, 115>>  \* "2@c.us"
Chat_3 == <<51, 64, 99, 46, 117, 115>>  \* "3@c.us"
T_unknown == <<117, 110, 107, 110, 111, 119, 110>>  \* "unknown"
ChatId == [u1 |-> Chat_1, u2 |-> Chat_2, u3 |-> Chat_3, unknown |-> T_unknown]

\* a field of senderData that holds the chat of the named sender
SenderRef(s) == [name |-> s]

\* chat_sender(notification): senderData.sender, else senderData.chatId,
\* else "unknown"
chat_sender(event) ==
    IF event.senderData.sender # PyNone THEN event.senderData.sender.name
    ELSE IF event.senderData.chatId # PyNone THEN event.senderData.chatId.name
    ELSE "unknown"

\* sender.split("@", 1)[0]
RECURSIVE BeforeAt(_)
BeforeAt(s) ==
    IF s = <<>> \/ Head(s) = 64 THEN <<>> ELSE <<Head(s)>> \o BeforeAt(Tail(s))

\* is_sender_allowed(sender, allowed); None and the empty set allow everyone
is_sender_allowed(sender, allowed) ==
    \/ allowed = {}
    \/ ChatId[sender] \in allowed
    \/ BeforeAt(ChatId[sender]) \in allowed

\* a guard that only wants the sender to be known
GuardSenderKnownOnly(event, allowed) == chat_sender(event) # "unknown"

\* guard_sender(notification, allowed)
guard_sender(event, allowed) ==
    chat_sender(event) # "unknown" /\ is_sender_allowed(chat_sender(event), allowed)

-----------------------------------------------------------------------------
(* The handlers: what one event does to the process *)

\* everything a handler can read and change, and what it has sent and
\* raised so far; snapshot is the mapping written by _persist_filter_state
World ==
    [states |-> states, nextFile |-> nextFile, store |-> store, call |-> NoCall,
     filters |-> filters, persisted |-> FALSE, snapshot |-> filters,
     lastCatalog |-> lastCatalog, lastDetails |-> lastDetails,
     lastViewed |-> lastViewed, searchWait |-> searchWait,
     lastSummaries |-> lastSummaries, processed |-> processed, users |-> users,
     sent |-> <<>>, exc |-> "none"]

\* notification.answer(...) and the other calls that send a message
Answer(w, msg) == [w EXCEPT !.sent = Append(@, msg)]

\* the world after a form operation with outcome o
WithForm(w, outcome) ==
    Only({[w EXCEPT !.states = o.states, !.call = o.call, !.store = o.store,
                    !.sent = IF o.reply \in {NoReply, EmptyReply} THEN @
                             ELSE Append(@, o.reply),
                    !.exc = o.exc] : o \in {outcome}})

\* the world after a buy operation with outcome o
WithFilter(w, outcome) ==
    Only({
        [w EXCEPT !.filters = o.filters,
                  !.persisted = @ \/ o.persisted,
                  !.snapshot = IF o.persisted THEN o.snapshot ELSE @,
                  !.lastCatalog = CASE o.cache.op = "set" ->
                                          DictPut(@, o.cache.sender, o.cache.ids)
                                    [] o.cache.op = "pop" -> DictPop(@, o.cache.sender)
                                    [] OTHER -> @,
                  !.lastDetails = CASE o.cache.op = "set" ->
                                          DictPut(@, o.cache.sender, o.cache.details)
                                    [] o.cache.op = "pop" -> DictPop(@, o.cache.sender)
                                    [] OTHER -> @,
                  !.lastViewed = IF o.cache.op = "pop" THEN DictPop(@, o.cache.sender) ELSE @,
                  !.searchWait = IF o.cache.op = "pop" THEN DictPop(@, o.cache.sender) ELSE @,
                  !.sent = IF o.reply = NoReply THEN @ ELSE Append(@, o.reply),
                  !.exc = o.exc] : o \in {outcome}})

\* ensure_user(sender, username): INSERT ... ON CONFLICT DO NOTHING
ensure_user(w, sender, userOk) ==
    IF userOk THEN [w EXCEPT !.users = @ \cup {sender}]
    ELSE [w EXCEPT !.exc = "DBError"]

\* an interactive menu goes out when notification.chat is set
SendMenu(w, event, menu) ==
    IF event.senderData.chatId = PyNone THEN w ELSE Answer(w, [kind |-> menu])

-----------------------------------------------------------------------------
(* sell.py *)

T_obyavlenie == <<1086, 1073, 1098, 1103, 1074, 1083, 1077, 1085, 1080, 1077>>  \* "объявление"
T_razmestit_obyavlenie == <<1088, 1072, 1079, 1084, 1077, 1089, 1090, 1080, 1090, 1100, 32, 1086, 1073, 1098, 1103, 1074, 1083, 1077, 1085, 1080, 1077>>  \* "разместить объявление"
T_moi_obyavleniya == <<1084, 1086, 1080, 32, 1086, 1073, 1098, 1103, 1074, 1083, 1077, 1085, 1080, 1103>>  \* "мои объявления"
T_sell_create == <<115, 101, 108, 108, 95, 99, 114, 101, 97, 116, 101>>  \* "sell_create"
T_sell_list == <<115, 101, 108, 108, 95, 108, 105, 115, 116>>  \* "sell_list"

\* SELL_TEXT_TO_BUTTON.get(text), "" for no entry
SELL_TEXT_TO_BUTTON(text) ==
    CASE text \in {T_razmestit_obyavlenie, T_sell_create} -> "sell_create"
      [] text \in {T_moi_obyavleniya, T_sell_list} -> "sell_list"
      [] OTHER -> ""

\* _resolve_index(sender, idx)
_resolve_index(sums, sender, idx) ==
    LET current == IF sender \in DOMAIN sums THEN sums[sender] ELSE <<>> IN
    IF current # <<>> /\ 1 <= idx /\ idx <= Len(current) THEN PyInt(current[idx])
    ELSE IF idx > 0 THEN PyInt(idx) ELSE PyNone

\* _extract_detail_request(sender, text)
_extract_detail_request(sums, sender, text) ==
    LET cleaned == Lower(Strip(text))
        digits == DigitGroups(cleaned)
    IN  IF StartsWith(cleaned, T_id)
        THEN IF digits # <<>> THEN PyInt(DigitsValue(digits[1], 0)) ELSE PyNone
        ELSE IF StartsWith(cleaned, T_obyavlenie)
        THEN IF digits # <<>> THEN _resolve_index(sums, sender, DigitsValue(digits[1], 0))
             ELSE PyNone
        ELSE IF IsDigitStr(cleaned) THEN _resolve_index(sums, sender, DigitsValue(cleaned, 0))
        ELSE PyNone

\* the rows of the sender, newest first
RECURSIVE NewestFirst(_)
NewestFirst(rows) ==
    IF rows = <<>> THEN <<>>
    ELSE LET k == CHOOSE i \in 1..Len(rows) :
                    \A j \in 1..Len(rows) :
                        rows[j].created_at < rows[i].created_at
                            \/ (rows[j].created_at = rows[i].created_at /\ j >= i)
         IN  <<rows[k]>> \o NewestFirst([i \in 1..(Len(rows) - 1) |->
                                            IF i < k THEN rows[i] ELSE rows[i + 1]])

\* get_ads_preview(sender): the number of the sender's ads and the ids of
\* the five newest
get_ads_preview(st, sender) ==
    LET rows == NewestFirst(SelectSeq(st.ads, LAMBDA ad : ad.sender = sender))
    IN  [total |-> Len(rows),
         ids |-> [i \in 1..(IF Len(rows) < 5 THEN Len(rows) ELSE 5) |-> rows[i].id]]

\* get_ad_with_images(sender, ad_id): the ad when it is the sender's own
get_ad_with_images(st, sender, ad_id) ==
    LET rows == SelectSeq(st.ads, LAMBDA ad : ad.id = ad_id /\ ad.sender = sender)
    IN  IF rows = <<>> THEN PyNone ELSE rows[1]

\* _send_ad_detail(notification, sender, ad_id)
_send_ad_detail(w, sender, ad_id, dbOk) ==
    IF ~dbOk THEN [w EXCEPT !.exc = "DBError"]
    ELSE IF get_ad_with_images(w.store, sender, ad_id) = PyNone
    THEN Answer(w, [kind |-> "sell_not_found"])
    ELSE Answer(w, [kind |-> "sell_detail", id |-> ad_id])

\* handle_sell_button(notification, settings, sender, button_id)
handle_sell_button(w, event, sender, button_id, userOk, dbOk) ==
    Only({
        IF u.exc # "none" THEN u
        ELSE IF button_id = "sell" THEN SendMenu(u, event, "sell_menu")
        ELSE IF button_id = "sell_create"
        THEN Answer([u EXCEPT !.states = DictPut(@, sender, SellFormState)],
                    [kind |-> "start_prompt", step |-> 0])
        ELSE IF button_id = "sell_list"
        THEN IF ~dbOk THEN [u EXCEPT !.exc = "DBError"]
             ELSE Only({
                    IF preview.total = 0 THEN Answer(u, [kind |-> "sell_list_empty"])
                    ELSE Answer([u EXCEPT !.lastSummaries = DictPut(@, sender, preview.ids)],
                                [kind |-> "sell_list", ids |-> preview.ids])
                    : preview \in {get_ads_preview(u.store, sender)}})
        ELSE u
        : u \in {ensure_user(w, sender, userOk)}})

\* handle_sell_text(notification, settings, sender, text): whether the text
\* was the sell section's, and the world after it
handle_sell_text(w, event, sender, text, userOk, dbOk) ==
    Only({
        IF detail_id # PyNone
        THEN [handled |-> TRUE, w |-> _send_ad_detail(w, sender, detail_id.int, dbOk)]
        ELSE Only({
               IF key = "" THEN [handled |-> FALSE, w |-> w]
               ELSE [handled |-> TRUE,
                     w |-> handle_sell_button(w, event, sender, key, userOk, dbOk)]
               : key \in {SELL_TEXT_TO_BUTTON(Lower(Strip(text)))}})
        : detail_id \in {_extract_detail_request(w.lastSummaries, sender, text)}})
-----------------------------------------------------------------------------
(* buy.py: text commands and buttons *)

T_v_izbrannoe == <<1074, 32, 1080, 1079, 1073, 1088, 1072, 1085, 1085, 1086, 1077>>  \* "в избранное"
T_izbrannoe == <<1080, 1079, 1073, 1088, 1072, 1085, 1085, 1086, 1077>>  \* "избранное"
T_dobavit_v_izbrannoe == <<1076, 1086, 1073, 1072, 1074, 1080, 1090, 1100, 32, 1074, 32, 1080, 1079, 1073, 1088, 1072, 1085, 1085, 1086, 1077>>  \* "добавить в избранное"
T_fav == <<102, 97, 118>>  \* "fav"
T_f_plus == <<102, 43>>  \* "f+"
T_filtry == <<1092, 1080, 1083, 1100, 1090, 1088, 1099>>  \* "фильтры"
T_filter == <<102, 105, 108, 116, 101, 114>>  \* "filter"
T_pokazat == <<1087, 1086, 1082, 1072, 1079, 1072, 1090, 1100>>  \* "показать"
T_obnovit == <<1086, 1073, 1085, 1086, 1074, 1080, 1090, 1100>>  \* "обновить"
T_dalshe == <<1076, 1072, 1083, 1100, 1096, 1077>>  \* "дальше"
T_vpered == <<1074, 1087, 1077, 1088, 1077, 1076>>  \* "вперед"
T_vperyod == <<1074, 1087, 1077, 1088, 1105, 1076>>  \* "вперёд"
T_next == <<110, 101, 120, 116>>  \* "next"
T_nazad == <<1085, 1072, 1079, 1072, 1076>>  \* "назад"
T_prev == <<112, 114, 101, 118>>  \* "prev"
T_pred == <<1087, 1088, 1077, 1076>>  \* "пред"
T_predydushchaya == <<1087, 1088, 1077, 1076, 1099, 1076, 1091, 1097, 1072, 1103>>  \* "предыдущая"
T_god == <<1075, 1086, 1076>>  \* "год"
T_probeg == <<1087, 1088, 1086, 1073, 1077, 1075>>  \* "пробег"
T_marka == <<1084, 1072, 1088, 1082, 1072>>  \* "марка"
T_region == <<1088, 1077, 1075, 1080, 1086, 1085>>  \* "регион"
T_sostoyanie == <<1089, 1086, 1089, 1090, 1086, 1103, 1085, 1080, 1077>>  \* "состояние"
T_sbros == <<1089, 1073, 1088, 1086, 1089>>  \* "сброс"
T_vse_obyavleniya == <<1074, 1089, 1077, 32, 1086, 1073, 1098, 1103, 1074, 1083, 1077, 1085, 1080, 1103>>  \* "все объявления"
T_poisk_avto == <<1087, 1086, 1080, 1089, 1082, 32, 1072, 1074, 1090, 1086>>  \* "поиск авто"
T_buy_all == <<98, 117, 121, 95, 97, 108, 108>>  \* "buy_all"
T_buy_filter == <<98, 117, 121, 95, 102, 105, 108, 116, 101, 114>>  \* "buy_filter"
T_buy_search == <<98, 117, 121, 95, 115, 101, 97, 114, 99, 104>>  \* "buy_search"
T_buy_favorites == <<98, 117, 121, 95, 102, 97, 118, 111, 114, 105, 116, 101, 115>>  \* "buy_favorites"
T_pokupka == <<1087, 1086, 1082, 1091, 1087, 1082, 1072>>  \* "покупка"
T_buy == <<98, 117, 121>>  \* "buy"

\* BUY_TEXT_TO_BUTTON.get(text), "" for no entry
BUY_TEXT_TO_BUTTON(text) ==
    CASE text \in {T_vse_obyavleniya, T_buy_all} -> "buy_all"
      [] text \in {T_filtry, T_buy_filter} -> "buy_filter"
      [] text \in {T_poisk_avto, T_buy_search} -> "buy_search"
      [] text \in {T_izbrannoe, T_buy_favorites} -> "buy_favorites"
      [] OTHER -> ""

\* the words that add the last-viewed ad to the favourites
FavouriteWords == {T_v_izbrannoe, T_izbrannoe, T_dobavit_v_izbrannoe, T_fav, T_f_plus}

\* _render_filtered(sender) called for its effect on the caches only
Refreshed(flt, sender, dbOk) ==
    Only({[FOut(r.filters, FALSE, flt, NoReply, r.exc) EXCEPT !.cache = r.cache]
          : r \in {_render_filtered(flt, sender, dbOk)}})

\* the dict _get_public_ad and _search_public_ads make of a row
PublicAd(ad) ==
    [id |-> ad.id, title |-> ad.title, price |-> ad.price, year |-> ad.year_car,
     mileage |-> ad.mileage_km_car, brand_id |-> ad.car_brand_id,
     model |-> ad.model_name, region |-> ad.region, condition |-> ad.condition,
     status |-> IF ad.is_active THEN "active" ELSE "processing",
     sender |-> ad.sender]

\* get_public_ad(ad_id): the ad when it is active
get_public_ad(st, ad_id) ==
    LET rows == SelectSeq(st.ads, LAMBDA ad : ad.id = ad_id /\ ad.is_active)
    IN  IF rows = <<>> THEN PyNone ELSE PublicAd(rows[1])

\* whether t occurs in s
Contains(s, t) ==
    \E i \in 0..(Len(s) - Len(t)) : SubSeq(s, i + 1, i + Len(t)) = t

\* search_public_ads(query, limit): the active ads whose title holds the
\* query, whatever the case
search_public_ads(st, query, limit) ==
    LET rows == SelectSeq(st.ads, LAMBDA ad :
                    ad.is_active /\ Contains(Lower(ad.title.str), Lower(query)))
    IN  [i \in 1..(IF Len(rows) < limit THEN Len(rows) ELSE limit) |-> PublicAd(rows[i])]

\* _build_search_text(sender, query)
_build_search_text(w, sender, query, dbOk) ==
    IF Len(query) < 2 THEN Answer(w, [kind |-> "search_too_short"])
    ELSE IF ~dbOk THEN [w EXCEPT !.exc = "DBError"]
    ELSE Only({
           IF ads = <<>> THEN Answer(w, [kind |-> "search_nothing"])
           ELSE Answer([w EXCEPT
                           !.lastCatalog = DictPut(@, sender, [i \in 1..Len(ads) |-> ads[i].id]),
                           !.lastDetails = DictPut(@, sender,
                               [id \in {ads[i].id : i \in 1..Len(ads)} |->
                                   ads[CHOOSE k \in 1..Len(ads) : ads[k].id = id]])],
                       [kind |-> "search_result", ids |-> [i \in 1..Len(ads) |-> ads[i].id]])
           : ads \in {search_public_ads(w.store, query, 5)}})

\* the ad with this id in the viewer's cache, else in some sender's cache
CachedAd(details, viewer, ad_id) ==
    LET holders == {s \in DOMAIN details : ad_id \in DOMAIN details[s]} IN
    IF viewer \in holders THEN details[viewer][ad_id]
    ELSE IF holders # {} THEN details[CHOOSE s \in holders : TRUE][ad_id]
    ELSE PyNone

\* the tail of _build_ad_detail once the ad is found: it becomes the last
\* viewed, then its images are read
ShowAd(w, viewer, ad, dbOk) ==
    IF ~dbOk THEN [w EXCEPT !.lastViewed = DictPut(@, viewer, ad.id), !.exc = "DBError"]
    ELSE Answer([w EXCEPT !.lastViewed = DictPut(@, viewer, ad.id)],
                [kind |-> "buy_detail", ad |-> ad])

\* _build_ad_detail(viewer, ad_id) and the answer made of it: the caches,
\* then the database, then the viewer's cache after a fresh render
_build_ad_detail(w, viewer, ad_id, dbOk) ==
    Only({
        IF cached # PyNone THEN ShowAd(w, viewer, cached, dbOk)
        ELSE IF ~dbOk THEN [w EXCEPT !.exc = "DBError"]
        ELSE Only({
               IF stored # PyNone THEN ShowAd(w, viewer, stored, dbOk)
               ELSE Only({
                      IF r.exc # "none" THEN r
                      ELSE IF viewer \in DOMAIN r.lastDetails
                              /\ ad_id \in DOMAIN r.lastDetails[viewer]
                      THEN ShowAd(r, viewer, r.lastDetails[viewer][ad_id], dbOk)
                      ELSE Answer(r, [kind |-> "buy_not_found"])
                      : r \in {WithFilter(w, Refreshed(w.filters, viewer, dbOk))}})
               : stored \in {get_public_ad(w.store, ad_id)}})
        : cached \in {CachedAd(w.lastDetails, viewer, ad_id)}})

\* _send_nav_buttons(notification, sender)
_send_nav_buttons(w, event, sender, navOk) ==
    IF event.senderData.chatId = PyNone THEN w
    ELSE Only({
           IF b.exc # "none" THEN [w EXCEPT !.filters = b.filters, !.exc = b.exc]
           ELSE Answer([w EXCEPT !.filters = b.filters],
                       [kind |-> "nav_buttons", buttons |-> b.buttons])
           : b \in {_nav_buttons(w.filters, sender, navOk)}})

\* the catalog a button or a command ends in: the page is moved or the
\* filters are reset as move says, then _send_catalog
Catalog(w, sender, move, dbOk, navOk) ==
    Only({
        IF x.exc # "none" THEN x
        ELSE WithFilter(x, _send_catalog(x.filters, sender, dbOk, navOk))
        : x \in {CASE move = "reset" -> WithFilter(w, _reset_filters(w.filters, sender))
                   [] move = "next" -> WithFilter(w, _shift_page(w.filters, sender, 1))
                   [] move = "prev" -> WithFilter(w, _shift_page(w.filters, sender, -1))
                   [] OTHER -> w}})

\* handle_buy_button(notification, settings, sender, button_id); the
\* favourites screen reads a table that is outside the model
handle_buy_button(w, event, sender, button_id, userOk, dbOk, navOk) ==
    Only({
        IF u.exc # "none" THEN u
        ELSE CASE button_id = "buy" ->
                    SendMenu(WithFilter(u, _reset_filters(u.filters, sender)), event, "buy_menu")
               [] button_id \in {"buy_all", "buy_next", "buy_prev", "buy_refresh"} ->
                    Catalog(u, sender,
                            CASE button_id = "buy_all" -> "reset"
                              [] button_id = "buy_next" -> "next"
                              [] button_id = "buy_prev" -> "prev"
                              [] OTHER -> "stay",
                            dbOk, navOk)
               [] button_id = "buy_filter" ->
                    Answer([u EXCEPT !.filters = _ensure_state(@, sender)],
                           [kind |-> "filter_text"])
               [] button_id = "buy_search" ->
                    Answer([u EXCEPT !.searchWait = DictPut(@, sender, TRUE)],
                           [kind |-> "search_prompt"])
               [] OTHER -> Answer(u, [kind |-> "placeholder"])
        : u \in {ensure_user(w, sender, userOk)}})

\* the branch of handle_buy_text a text takes once it is neither a search
\* query nor an ad id, in the order of the tests
BuyCommand(cleaned) ==
    IF cleaned \in {T_filtry, T_filter} THEN "filters"
    ELSE IF cleaned \in {T_pokazat, T_obnovit} THEN "show"
    ELSE IF cleaned \in {T_dalshe, T_vpered, T_vperyod, T_next} THEN "next"
    ELSE IF cleaned \in {T_nazad, T_prev, T_pred, T_predydushchaya} THEN "prev"
    ELSE IF StartsWith(cleaned, T_cena) THEN "price"
    ELSE IF StartsWith(cleaned, T_god) THEN "year"
    ELSE IF StartsWith(cleaned, T_probeg) THEN "mileage"
    ELSE IF StartsWith(cleaned, T_marka) THEN "brand"
    ELSE IF StartsWith(cleaned, T_region) THEN "region"
    ELSE IF StartsWith(cleaned, T_sostoyanie) THEN "condition"
    ELSE IF StartsWith(cleaned, T_sort) THEN "sort"
    ELSE IF cleaned = T_sbros THEN "reset"
    ELSE IF BUY_TEXT_TO_BUTTON(cleaned) # "" THEN "button"
    ELSE IF cleaned \in {T_pokupka, T_buy} THEN "buy"
    ELSE "none"

\* the update a filter command makes
FilterCommand(flt, sender, cmd, text, cleaned, dbOk) ==
    CASE cmd = "price" -> _update_price_filter(flt, sender, cleaned, dbOk)
      [] cmd = "year" -> _update_year_filter(flt, sender, cleaned, dbOk)
      [] cmd = "mileage" -> _update_mileage_filter(flt, sender, cleaned, dbOk)
      [] cmd = "brand" -> _update_brand_filter(flt, sender, cleaned, dbOk)
      [] cmd = "region" -> _update_region_filter(flt, sender, text, dbOk)
      [] cmd = "condition" -> _update_condition_filter(flt, sender, text, dbOk)
      [] OTHER -> _update_sorting(flt, sender, text, dbOk)

\* the commands of handle_buy_text: the seven filter commands answer the
\* text of the update and send the navigation buttons, the four catalog
\* commands end in _send_catalog
BuyCommandText(w, event, sender, text, cleaned, cmd, userOk, dbOk, navOk) ==
    IF cmd = "filters"
    THEN [handled |-> TRUE,
          w |-> Answer([w EXCEPT !.filters = _ensure_state(@, sender)],
                       [kind |-> "filter_text"])]
    ELSE IF cmd \in {"show", "next", "prev", "reset"}
    THEN [handled |-> TRUE, w |-> Catalog(w, sender, cmd, dbOk, navOk)]
    ELSE IF cmd \in {"price", "year", "mileage", "brand", "region", "condition", "sort"}
    THEN [handled |-> TRUE,
          w |-> Only({IF x.exc # "none" THEN x
                      ELSE _send_nav_buttons(x, event, sender, navOk)
                      : x \in {WithFilter(w, FilterCommand(w.filters, sender, cmd, text,
                                                           cleaned, dbOk))}})]
    ELSE IF cmd \in {"button", "buy"}
    THEN [handled |-> TRUE,
          w |-> handle_buy_button(w, event, sender,
                                  IF cmd = "buy" THEN "buy" ELSE BUY_TEXT_TO_BUTTON(cleaned),
                                  userOk, dbOk, navOk)]
    ELSE [handled |-> FALSE, w |-> w]

\* a search branch that goes on waiting after a query that is too short
HandleBuyTextKeepsWaiting(w, event, sender, text, userOk, dbOk, navOk) ==
    Only({
        IF sender \in DOMAIN w.searchWait
        THEN [handled |-> TRUE,
              w |-> _build_search_text(IF Len(cleaned) < 2 THEN w
                                       ELSE [w EXCEPT !.searchWait = DictPop(@, sender)],
                                       sender, cleaned, dbOk)]
        ELSE Only({
               IF o.exc # "none"
               THEN [handled |-> TRUE, w |-> WithFilter(w, [o EXCEPT !.reply = NoReply])]
               ELSE IF o.reply.value # PyNone
               THEN [handled |-> TRUE,
                     w |-> Only({_build_ad_detail(x, sender, o.reply.value.int, dbOk)
                                 : x \in {WithFilter(w, [o EXCEPT !.reply = NoReply])}})]
               ELSE Only({BuyCommandText(w, event, sender, text, cleaned, cmd,
                                         userOk, dbOk, navOk)
                          : cmd \in {BuyCommand(cleaned)}})
               : o \in {_extract_public_id(w.filters, w.lastCatalog, sender, text, dbOk)}})
        : cleaned \in {Lower(Strip(text))}})

\* handle_buy_text(notification, settings, sender, text): the search query,
\* the ad id, then the command
handle_buy_text(w, event, sender, text, userOk, dbOk, navOk) ==
    Only({
        IF sender \in DOMAIN w.searchWait
        THEN [handled |-> TRUE,
              w |-> _build_search_text([w EXCEPT !.searchWait = DictPop(@, sender)],
                                       sender, cleaned, dbOk)]
        ELSE Only({
               IF o.exc # "none"
               THEN [handled |-> TRUE, w |-> WithFilter(w, [o EXCEPT !.reply = NoReply])]
               ELSE IF o.reply.value # PyNone
               THEN [handled |-> TRUE,
                     w |-> Only({_build_ad_detail(x, sender, o.reply.value.int, dbOk)
                                 : x \in {WithFilter(w, [o EXCEPT !.reply = NoReply])}})]
               ELSE Only({BuyCommandText(w, event, sender, text, cleaned, cmd,
                                         userOk, dbOk, navOk)
                          : cmd \in {BuyCommand(cleaned)}})
               : o \in {_extract_public_id(w.filters, w.lastCatalog, sender, text, dbOk)}})
        : cleaned \in {Lower(Strip(text))}})
-----------------------------------------------------------------------------
(* basic.py and menu.py: the handlers the router calls *)

T_profil == <<1087, 1088, 1086, 1092, 1080, 1083, 1100>>  \* "профиль"
T_profile == <<112, 114, 111, 102, 105, 108, 101>>  \* "profile"
T_prodazha == <<1087, 1088, 1086, 1076, 1072, 1078, 1072>>  \* "продажа"
T_sell == <<115, 101, 108, 108>>  \* "sell"

\* deque(maxlen=500)
PROCESSED_MAXLEN == 500

\* deque.append(x): the oldest entry leaves a full deque
DequeAppend(q, x) ==
    IF Len(q) >= PROCESSED_MAXLEN THEN Tail(q) \o <<x>> ELSE Append(q, x)

\* x in deque
InDeque(q, x) == \E i \in 1..Len(q) : q[i] = x

\* SellFormManager.has_state(sender)
has_state(sts, sender) == sender \in DOMAIN sts

\* _message_text(notification)
_message_text(event) ==
    LET text_data == event.messageData.textMessageData
        extended == event.messageData.extendedTextMessageData
    IN  IF text_data # PyNone /\ ~Falsy(text_data.textMessage) THEN text_data.textMessage.str
        ELSE IF extended # PyNone /\ ~Falsy(extended.text) THEN extended.text.str
        ELSE <<>>

\* the text commands of handle_fallback: the sell section, then the buy
\* section, then the automatic reply
TextCommands(u, event, sender, incoming, auto_reply, userOk, dbOk, navOk) ==
    IF incoming = <<>>
    THEN IF auto_reply THEN Answer(u, [kind |-> "auto_reply"]) ELSE u
    ELSE Only({
           IF sold.handled \/ sold.w.exc # "none" THEN sold.w
           ELSE Only({
                  IF bought.handled \/ bought.w.exc # "none" THEN bought.w
                  ELSE IF auto_reply THEN Answer(u, [kind |-> "auto_reply"])
                  ELSE u
                  : bought \in {handle_buy_text(u, event, sender, incoming,
                                                userOk, dbOk, navOk)}})
           : sold \in {handle_sell_text(u, event, sender, incoming, userOk, dbOk)}})

\* the form's part of handle_fallback: the media first, then the text
FormMessage(u, event, sender, incoming, db, dlOk) ==
    Only({
        IF media.exc # "none" \/ media.reply # EmptyReply
        THEN [WithForm(u, media) EXCEPT
                !.nextFile = IF MediaStored(u.states, sender, event.messageData, dlOk)
                             THEN @ + 1 ELSE @]
        ELSE WithForm(u, handle(media.states, sender, PyStr(incoming), db))
        : media \in {handle_media(u.states, u.nextFile, sender, event.messageData, dlOk)}})

\* the part of handle_fallback after the dedupe: the user row, the form,
\* the text commands
Dispatch(w, event, auto_reply, userOk, db, dlOk, dbOk, navOk) ==
    Only({
        IF u.exc # "none" THEN u
        ELSE IF has_state(u.states, chat_sender(event))
        THEN FormMessage(u, event, chat_sender(event), _message_text(event), db, dlOk)
        ELSE TextCommands(u, event, chat_sender(event), _message_text(event),
                          auto_reply, userOk, dbOk, navOk)
        : u \in {ensure_user(w, chat_sender(event), userOk)}})

\* a fallback that tries the text commands before the form
HandleFallbackCommandsFirst(w, event, allowed, auto_reply, userOk, db, dlOk, dbOk, navOk) ==
    IF ~guard_sender(event, allowed) THEN w
    ELSE IF event.typeWebhook \notin {"incomingMessageReceived", "outgoingMessageReceived"}
    THEN w
    ELSE IF ~Falsy(event.idMessage) /\ InDeque(w.processed, event.idMessage) THEN w
    ELSE IF ~Falsy(event.idMessage)
    THEN [w EXCEPT !.processed = DequeAppend(@, event.idMessage)]
    ELSE Only({
           IF u.exc # "none" THEN u
           ELSE Only({
                  IF t.sent # <<>> \/ t.exc # "none"
                     \/ ~has_state(u.states, chat_sender(event))
                  THEN t
                  ELSE FormMessage(u, event, chat_sender(event), _message_text(event),
                                   db, dlOk)
                  : t \in {TextCommands(u, event, chat_sender(event), _message_text(event),
                                        FALSE, userOk, dbOk, navOk)}})
           : u \in {ensure_user(w, chat_sender(event), userOk)}})

\* handle_fallback(notification, settings, allowed): the id of a new message
\* is appended by the first dedupe block and found by the second, which
\* returns
handle_fallback(w, event, allowed, auto_reply, userOk, db, dlOk, dbOk, navOk) ==
    IF ~guard_sender(event, allowed) THEN w
    ELSE IF event.typeWebhook \notin {"incomingMessageReceived", "outgoingMessageReceived"}
    THEN w
    ELSE IF ~Falsy(event.idMessage) /\ InDeque(w.processed, event.idMessage) THEN w
    ELSE IF ~Falsy(event.idMessage)
    THEN [w EXCEPT !.processed = DequeAppend(@, event.idMessage)]
    ELSE Dispatch(w, event, auto_reply, userOk, db, dlOk, dbOk, navOk)

\* handle_start(notification, settings, allowed)
handle_start(w, event, allowed, userOk) ==
    IF ~guard_sender(event, allowed) THEN w
    ELSE Only({
           IF u.exc # "none" THEN u
           ELSE Answer(WithFilter(u, _reset_filters(u.filters, chat_sender(event))),
                       [kind |-> "start_text"])
           : u \in {ensure_user(w, chat_sender(event), userOk)}})

\* handle_balance(notification, settings, allowed)
handle_balance(w, event, allowed, userOk, dbOk) ==
    IF ~guard_sender(event, allowed) THEN w
    ELSE Only({
           IF u.exc # "none" THEN u
           ELSE IF ~dbOk THEN [u EXCEPT !.exc = "DBError"]
           ELSE Answer(u, [kind |-> "balance"])
           : u \in {ensure_user(w, chat_sender(event), userOk)}})

\* handle_main_menu(notification, settings, allowed)
handle_main_menu(w, event, allowed, userOk) ==
    IF ~guard_sender(event, allowed) THEN w
    ELSE Only({
           IF u.exc # "none" THEN u
           ELSE IF has_state(u.states, chat_sender(event))
           THEN SendMenu(Answer([u EXCEPT !.states = DictPop(@, chat_sender(event))],
                                [kind |-> "form_stopped"]), event, "main_menu")
           ELSE SendMenu(u, event, "main_menu")
           : u \in {ensure_user(w, chat_sender(event), userOk)}})

\* the button ids that start with "sell", and those that start with "buy_"
SellButtons == {"sell", "sell_create", "sell_list"}
BuyButtons == {"buy_all", "buy_filter", "buy_search", "buy_favorites", "buy_next",
               "buy_prev", "buy_refresh"}

\* _dispatch_button(notification, settings, allowed, button_id)
_dispatch_button(w, event, allowed, button_id, userOk, dbOk, navOk) ==
    Only({
        IF u.exc # "none" THEN u
        ELSE IF button_id = "profile"
        THEN IF ~dbOk THEN [u EXCEPT !.exc = "DBError"] ELSE Answer(u, [kind |-> "profile"])
        ELSE IF button_id \in SellButtons
        THEN handle_sell_button(u, event, chat_sender(event), button_id, userOk, dbOk)
        ELSE IF button_id = "buy" \/ button_id \in BuyButtons
        THEN handle_buy_button(u, event, chat_sender(event), button_id, userOk, dbOk, navOk)
        ELSE IF button_id = "back_menu" THEN handle_main_menu(u, event, allowed, userOk)
        ELSE u
        : u \in {ensure_user(w, chat_sender(event), userOk)}})

\* handle_menu_selection(notification, settings, allowed)
handle_menu_selection(w, event, allowed, userOk, dbOk, navOk) ==
    IF ~guard_sender(event, allowed) THEN w
    ELSE IF event.messageData.interactiveButtonsResponse = PyNone THEN w
    ELSE IF event.messageData.interactiveButtonsResponse.selectedButtonId = "" THEN w
    ELSE _dispatch_button(w, event, allowed,
                          event.messageData.interactiveButtonsResponse.selectedButtonId,
                          userOk, dbOk, navOk)

\* TEXT_TO_BUTTON.get(text), "" for no entry
TEXT_TO_BUTTON(text) ==
    CASE text \in {T_profil, T_profile} -> "profile"
      [] text \in {T_prodazha, T_sell} -> "sell"
      [] text \in {T_pokupka, T_buy} -> "buy"
      [] OTHER -> ""

\* handle_menu_text(notification, settings, allowed): the menu words, then
\* the buy commands, then the sell commands
handle_menu_text(w, event, allowed, userOk, dbOk, navOk) ==
    IF ~guard_sender(event, allowed) THEN w
    ELSE Only({
           IF text = <<>> THEN w
           ELSE Only({
                  IF u.exc # "none" THEN u
                  ELSE IF TEXT_TO_BUTTON(Lower(Strip(text))) # ""
                  THEN _dispatch_button(u, event, allowed, TEXT_TO_BUTTON(Lower(Strip(text))),
                                        userOk, dbOk, navOk)
                  ELSE Only({
                         IF bought.handled \/ bought.w.exc # "none" THEN bought.w
                         ELSE handle_sell_text(u, event, chat_sender(event), text,
                                               userOk, dbOk).w
                         : bought \in {handle_buy_text(u, event, chat_sender(event), text,
                                                       userOk, dbOk, navOk)}})
                  : u \in {ensure_user(w, chat_sender(event), userOk)}})
           : text \in {_message_text(event)}})
-----------------------------------------------------------------------------
(* The handlers: actions *)

\* the process takes on what the handler left in w; wr is how the write of
\* the filter file ends when the handler persisted
Commit(res, wr, handler, event) ==
    /\ wr # "ok" => failedWrites < MaxWriteFailures
    /\ \E w \in {res} :
        /\ wr # "ok" => w.persisted
        /\ \A s \in DOMAIN w.filters : w.filters[s]["page"].int <= MaxPage
        /\ Len(w.store.ads) > Len(store.ads) => Len(w.store.ads) <= MaxNewAds
        /\ states' = w.states
        /\ nextFile' = w.nextFile
        /\ store' = w.store
        /\ call' = w.call
        /\ filters' = w.filters
        /\ file' = IF w.persisted THEN WriteText(file, json_dumps(w.snapshot), wr) ELSE file
        /\ lastWriteOk' = IF w.persisted THEN wr = "ok" ELSE lastWriteOk
        /\ failedWrites' = IF wr # "ok" THEN failedWrites + 1 ELSE failedWrites
        /\ lastCatalog' = w.lastCatalog
        /\ lastDetails' = w.lastDetails
        /\ lastViewed' = w.lastViewed
        /\ searchWait' = w.searchWait
        /\ lastSummaries' = w.lastSummaries
        /\ processed' = w.processed
        /\ users' = w.users
        /\ reply' = IF w.sent = <<>> THEN NoReply ELSE w.sent[1]
        /\ exc' = w.exc
        /\ routed' = [handler |-> handler, sender |-> chat_sender(event)]
        /\ UNCHANGED <<settings, runner>>

\* the favourites table is outside the model: no event asks for it
AsksForFavourites(event) ==
    \/ Lower(Strip(_message_text(event))) \in FavouriteWords \cup {T_buy_favorites}
    \/ /\ event.messageData.interactiveButtonsResponse # PyNone
       /\ event.messageData.interactiveButtonsResponse.selectedButtonId = "buy_favorites"

\* the router calls handle_fallback
HandleFallback(event, userOk, db, dlOk, dbOk, navOk) ==
    /\ ~AsksForFavourites(event)
    /\ dlOk => nextFile < MaxUploads
    /\ Commit(handle_fallback(World, event, settings.allowed_senders, settings.auto_reply,
                              userOk, db, dlOk, dbOk, navOk), "ok", "handle_fallback", event)

\* the router calls handle_start
HandleStart(event, userOk, wr) ==
    Commit(handle_start(World, event, settings.allowed_senders, userOk), wr, "handle_start", event)

\* the router calls handle_balance
HandleBalance(event, userOk, dbOk) ==
    Commit(handle_balance(World, event, settings.allowed_senders, userOk, dbOk), "ok", "handle_balance", event)

\* the router calls handle_main_menu
HandleMainMenu(event, userOk) ==
    Commit(handle_main_menu(World, event, settings.allowed_senders, userOk), "ok", "handle_main_menu", event)

\* the router calls handle_menu_selection
HandleMenuSelection(event, userOk, dbOk, navOk) ==
    /\ ~AsksForFavourites(event)
    /\ Commit(handle_menu_selection(World, event, settings.allowed_senders,
                                    userOk, dbOk, navOk), "ok", "handle_menu_selection", event)

\* the router calls handle_menu_text
HandleMenuText(event, userOk, dbOk, navOk) ==
    /\ ~AsksForFavourites(event)
    /\ Commit(handle_menu_text(World, event, settings.allowed_senders,
                               userOk, dbOk, navOk), "ok", "handle_menu_text", event)

-----------------------------------------------------------------------------
(* state.py: DBRunner *)

\* a future that is not done, done with a value, done with an exception
Pending == [state |-> "pending", value |-> 0]
Result(v) == [state |-> "result", value |-> v]
Raised == [state |-> "exception", value |-> 0]

\* DBRunner(): a new event loop and a thread that is about to run it; no
\* coroutine handed over, the caller not inside run
DBRunner ==
    [loop |-> "created", ready |-> <<>>, tasks |-> EmptyDict, futures |-> <<>>,
     calls |-> <<>>, db |-> <<>>, done |-> <<>>,
     caller |-> [pc |-> "idle", id |-> 0, got |-> Pending]]

\* _run_loop(): the thread sets the loop and runs it forever
_run_loop(r) == [r EXCEPT !.loop = "running"]

\* a run that hands the coroutine over and returns the future as it is
RunWithoutResult(r, coro) ==
    Only({[r EXCEPT !.calls = Append(@, coro),
                    !.ready = Append(@, id),
                    !.futures = Append(@, Pending),
                    !.caller = [pc |-> "idle", id |-> id, got |-> Pending]]
          : id \in {Len(r.futures) + 1}})

\* run(coro): run_coroutine_threadsafe puts the coroutine into the loop's
\* queue and gives a future; .result() keeps the caller until it is done
run(r, coro) ==
    Only({[r EXCEPT !.calls = Append(@, coro),
                    !.ready = Append(@, id),
                    !.futures = Append(@, Pending),
                    !.caller = [pc |-> "result", id |-> id, got |-> @.got]]
          : id \in {Len(r.futures) + 1}})

\* .result() returns: the caller has the result or the exception of the
\* future it waited for
result(r) == [r EXCEPT !.caller = [pc |-> "idle", id |-> @.id, got |-> r.futures[@.id]]]

\* the loop takes the oldest coroutine handed to it and runs it up to its
\* first await
TaskStarted(r, awaits) ==
    [r EXCEPT !.ready = Tail(@), !.tasks = DictPut(@, Head(r.ready), awaits)]

\* the loop resumes a coroutine whose await is over: it goes on to the next
\* await, or it ends, a write with its row in the table and the number of
\* rows as its value, a read with the number of rows, or with an exception
\* and nothing written
TaskResumed(r, id, raises) ==
    IF r.tasks[id] > 1 THEN [r EXCEPT !.tasks[id] = @ - 1]
    ELSE IF raises
    THEN [r EXCEPT !.tasks = DictPop(@, id), !.done = Append(@, id),
                   !.futures[id] = Raised]
    ELSE IF r.calls[id] = "write"
    THEN [r EXCEPT !.tasks = DictPop(@, id), !.done = Append(@, id),
                   !.db = Append(@, id), !.futures[id] = Result(Len(r.db) + 1)]
    ELSE [r EXCEPT !.tasks = DictPop(@, id), !.done = Append(@, id),
                   !.futures[id] = Result(Len(r.db))]

-----------------------------------------------------------------------------
(* Restart and the initial state *)

\* Settings(): no whitelist, the default automatic reply
DefaultSettings == [allowed_senders |-> {}, auto_reply |-> TRUE]

\* the router has called no handler yet
NoRoute == [handler |-> "none", sender |-> "unknown"]

\* the process is started again: the in-memory state is lost and the module
\* level _load_filter_state() runs
Restart ==
    /\ states' = EmptyDict
    /\ filters' = _load_filter_state(EmptyDict, file)
    /\ reply' = NoReply
    /\ exc' = "none"
    /\ call' = NoCall
    /\ lastCatalog' = EmptyDict
    /\ lastDetails' = EmptyDict
    /\ lastViewed' = EmptyDict
    /\ searchWait' = EmptyDict
    /\ lastSummaries' = EmptyDict
    /\ processed' = <<>>
    /\ routed' = NoRoute
    /\ UNCHANGED <<nextFile, file, lastWriteOk, failedWrites, store, users, settings, runner>>

Init ==
    /\ states = EmptyDict
    /\ nextFile = 0
    /\ reply = NoReply
    /\ exc = "none"
    /\ call = NoCall
    /\ filters = EmptyDict
    /\ file = NoFile
    /\ lastWriteOk = TRUE
    /\ failedWrites = 0
    /\ store = EmptyStore
    /\ lastCatalog = EmptyDict
    /\ lastDetails = EmptyDict
    /\ lastViewed = EmptyDict
    /\ searchWait = EmptyDict
    /\ lastSummaries = EmptyDict
    /\ processed = <<>>
    /\ users = {}
    /\ settings = DefaultSettings
    /\ runner = DBRunner
    /\ routed = NoRoute

NextForm ==
    \E s \in FormSenders :
        \/ Start(s)
        \/ Cancel(s)
        \/ \E m \in FormMessages : Handle(s, m, DbDown)
        \/ \E md \in MediaMessages, dlOk \in BOOLEAN : HandleMedia(s, md, dlOk)

\* the sell form alone; the store takes no ad
SpecForm == Init /\ [][NextForm]_vars

\* texts of the dialogue: nothing, blanks, a phrase, two numbers, «Готово»
WizardMessages ==
    {PyNone, PyStr(<<>>), PyStr(In_blank), PyStr(In_remontirovalsya),
     PyStr(In_2020), PyStr(In_0), PyStr(In_Gotovo)}

NextWizard ==
    \E s \in FormSenders :
        \/ Start(s)
        \/ \E m \in WizardMessages \cup {PyStr(In_Otmena), PyStr(In_MENU)} :
                Handle(s, m, DbDown)
        \/ \E md \in {x \in MediaMessages : x.typeMessage = "imageMessage"} :
                HandleMedia(s, md, TRUE)

\* the dialogue of the sell form: every text, cancel keywords in any case,
\* photos that are always stored
SpecWizard == Init /\ [][NextWizard]_vars

NextStore ==
    \E s \in FormSenders :
        \/ Start(s)
        \/ \E t \in AnswersOf(s), db \in DbOutcomes : Handle(s, PyStr(t), db)
        \/ \E md \in MediaMessages : HandleMedia(s, md, TRUE)

\* forms filled in to the end by a sender who answers each question, and the
\* ads, images and brands they leave in the store
SpecStore == Init /\ [][NextStore]_vars

NextFilter ==
    \/ \E s \in FilterSenders :
        \/ \E delta \in PageDeltas : ShiftPage(s, delta, "ok")
        \/ ResetFilters(s, "ok")
        \/ \E dbOk \in BOOLEAN :
            \/ \E t \in PriceTexts : UpdatePriceFilter(s, t, "ok", dbOk)
            \/ \E t \in YearTexts : UpdateYearFilter(s, t, "ok", dbOk)
            \/ \E t \in MileageTexts : UpdateMileageFilter(s, t, "ok", dbOk)
            \/ \E t \in BrandTexts : UpdateBrandFilter(s, t, "ok", dbOk)
            \/ \E t \in RegionTexts : UpdateRegionFilter(s, t, "ok", dbOk)
            \/ \E t \in ConditionSamples : UpdateConditionFilter(s, t, "ok", dbOk)
            \/ \E t \in SortSamples : UpdateSorting(s, t, "ok", dbOk)
        \/ BuildFilterText(s)
    \/ Restart

\* the buy filters of one sender, with every command; the file is written
\* without failure
SpecFilter == Init /\ [][NextFilter]_vars

NextCondition ==
    \/ \E s \in FilterSenders :
        \/ \E delta \in PageDeltas : ShiftPage(s, delta, "ok")
        \/ ResetFilters(s, "ok")
        \/ \E dbOk \in BOOLEAN :
            \/ \E t \in BrandTexts : UpdateBrandFilter(s, t, "ok", dbOk)
            \/ \E t \in RegionTexts : UpdateRegionFilter(s, t, "ok", dbOk)
            \/ \E t \in ConditionTexts : UpdateConditionFilter(s, t, "ok", dbOk)
        \/ BuildFilterText(s)
    \/ Restart

\* the condition command among brand and region commands, paging and resets
SpecCondition == Init /\ [][NextCondition]_vars

NextSort ==
    \/ \E s \in FilterSenders :
        \/ \E delta \in PageDeltas : ShiftPage(s, delta, "ok")
        \/ ResetFilters(s, "ok")
        \/ \E dbOk \in BOOLEAN :
            \/ \E t \in PriceTexts : UpdatePriceFilter(s, t, "ok", dbOk)
            \/ \E t \in YearTexts \cup YearEdgeTexts : UpdateYearFilter(s, t, "ok", dbOk)
            \/ \E t \in MileageTexts : UpdateMileageFilter(s, t, "ok", dbOk)
            \/ \E t \in SortTexts : UpdateSorting(s, t, "ok", dbOk)
        \/ BuildFilterText(s)
    \/ Restart

\* the sort command among price, year and mileage commands, paging and resets
SpecSort == Init /\ [][NextSort]_vars

InitCatalog ==
    /\ states = EmptyDict
    /\ nextFile = 0
    /\ reply = NoReply
    /\ exc = "none"
    /\ call = NoCall
    /\ filters = EmptyDict
    /\ file = NoFile
    /\ lastWriteOk = TRUE
    /\ failedWrites = 0
    /\ store = SeededStore
    /\ lastCatalog = EmptyDict
    /\ lastDetails = EmptyDict
    /\ lastViewed = EmptyDict
    /\ searchWait = EmptyDict
    /\ lastSummaries = EmptyDict
    /\ processed = <<>>
    /\ users = {}
    /\ settings = DefaultSettings
    /\ runner = DBRunner
    /\ routed = NoRoute

NextCatalog ==
    \/ \E s \in FilterSenders :
        \/ \E delta \in {-1, 1} : ShiftPage(s, delta, "ok")
        \/ ResetFilters(s, "ok")
        \/ \E dbOk \in BOOLEAN, navOk \in BOOLEAN : SendCatalog(s, dbOk, navOk)
        \/ \E dbOk \in BOOLEAN :
            \/ \E t \in PriceTexts : UpdatePriceFilter(s, t, "ok", dbOk)
            \/ \E t \in YearTexts : UpdateYearFilter(s, t, "ok", dbOk)
            \/ \E t \in SortSamples : UpdateSorting(s, t, "ok", dbOk)
    \/ Restart

\* the catalog of a store that holds listings: pages, filters, sorting
SpecCatalog == InitCatalog /\ [][NextCatalog]_vars

NextPaging ==
    \/ \E s \in FilterSenders :
        \/ \E delta \in {-1, 1} : ShiftPage(s, delta, "ok")
        \/ ResetFilters(s, "ok")
        \/ \E dbOk \in BOOLEAN :
            \/ UpdatePriceFilter(s, Cmd_cena_range, "ok", dbOk)
            \/ \E t \in {Cmd_god_2015, Cmd_god_range} : UpdateYearFilter(s, t, "ok", dbOk)
            \/ UpdateMileageFilter(s, Cmd_probeg_range, "ok", dbOk)
            \/ \E t \in {Cmd_marka_toyota, Cmd_marka_lada} :
                    UpdateBrandFilter(s, t, "ok", dbOk)
            \/ \E t \in {Cmd_region_mahachkala, Cmd_region_m} :
                    UpdateRegionFilter(s, t, "ok", dbOk)
            \/ \E t \in {Cmd_sostoyanie_celyj, Cmd_sostoyanie_novyj} :
                    UpdateConditionFilter(s, t, "ok", dbOk)
            \/ \E t \in {Cmd_sort_cena_deshevle, Cmd_sort_cvet} :
                    UpdateSorting(s, t, "ok", dbOk)
    \/ Restart

\* paging among the seven filter commands, each with one or two texts
SpecPaging == Init /\ [][NextPaging]_vars

NextPersist ==
    \/ \E s \in Senders, wr \in WriteOutcomes :
        \/ \E delta \in PageDeltas : ShiftPage(s, delta, wr)
        \/ ResetFilters(s, wr)
        \/ \E t \in PriceTexts : UpdatePriceFilter(s, t, wr, FALSE)
        \/ UpdateYearFilter(s, Cmd_god_2015, wr, FALSE)
    \/ \E s \in Senders : BuildFilterText(s)
    \/ Restart

\* the persistence of the filter mapping: two senders, writes that may fail;
\* the listing queries raise (CrudeAdd of database/crude/add.py has no
\* count_filtered_ads), so that an update ends once its write is done
SpecPersist == Init /\ [][NextPersist]_vars

Next == NextForm \/ NextFilter

Spec == Init /\ [][Next]_vars

-----------------------------------------------------------------------------
(* Events *)

In_privet == <<1087, 1088, 1080, 1074, 1077, 1090>>  \* "привет"
In_Pokazat == <<1055, 1086, 1082, 1072, 1079, 1072, 1090, 1100>>  \* "Показать"
In_Poisk_avto == <<1055, 1086, 1080, 1089, 1082, 32, 1072, 1074, 1090, 1086>>  \* "Поиск авто"
In_Razmestit == <<1056, 1072, 1079, 1084, 1077, 1089, 1090, 1080, 1090, 1100, 32, 1086, 1073, 1098, 1103, 1074, 1083, 1077, 1085, 1080, 1077>>  \* "Разместить объявление"
In_Moi == <<1052, 1086, 1080, 32, 1086, 1073, 1098, 1103, 1074, 1083, 1077, 1085, 1080, 1103>>  \* "Мои объявления"
In_2 == <<50>>  \* "2"
In_id3 == <<105, 100, 51>>  \* "id3"
In_Dalshe == <<1044, 1072, 1083, 1100, 1096, 1077>>  \* "Дальше"
In_m1 == <<109, 49>>  \* "m1"
In_m2 == <<109, 50>>  \* "m2"

\* messageData of a text message, of an extended text message, of a
\* pressed button, of a photo, and of a message with nothing in it
TextData(t) ==
    [typeMessage |-> "textMessage", fileMessageData |-> PyNone,
     imageMessageData |-> PyNone, textMessageData |-> [textMessage |-> PyStr(t)],
     extendedTextMessageData |-> PyNone, interactiveButtonsResponse |-> PyNone]
ExtendedData(t) ==
    [typeMessage |-> "extendedTextMessage", fileMessageData |-> PyNone,
     imageMessageData |-> PyNone, textMessageData |-> PyNone,
     extendedTextMessageData |-> [text |-> PyStr(t)],
     interactiveButtonsResponse |-> PyNone]
ButtonData(b) ==
    [typeMessage |-> "interactiveButtonsResponse", fileMessageData |-> PyNone,
     imageMessageData |-> PyNone, textMessageData |-> PyNone,
     extendedTextMessageData |-> PyNone,
     interactiveButtonsResponse |-> [selectedButtonId |-> b]]
PhotoData ==
    [typeMessage |-> "imageMessage",
     fileMessageData |-> [downloadUrl |-> PyStr(In_url), fileName |-> PyStr(In_car_png)],
     imageMessageData |-> PyNone, textMessageData |-> PyNone,
     extendedTextMessageData |-> PyNone, interactiveButtonsResponse |-> PyNone]

\* senderData of the named sender; of a chat without a sender field; of an
\* event that names nobody
SenderData(s) == [sender |-> SenderRef(s), chatId |-> SenderRef(s)]
ChatOnly(s) == [sender |-> PyNone, chatId |-> SenderRef(s)]
Nobody == [sender |-> PyNone, chatId |-> PyNone]

Event(type, id, sender_data, message_data) ==
    [typeWebhook |-> type, idMessage |-> id, senderData |-> sender_data,
     messageData |-> message_data]

\* an incoming message without an idMessage
Incoming(s, message_data) ==
    Event("incomingMessageReceived", PyNone, SenderData(s), message_data)

-----------------------------------------------------------------------------
(* The handlers behind the router: specifications *)

\* the process starts with a store that holds listings and the settings of
\* one of the deployments
InitEntry(deployments) ==
    /\ states = EmptyDict
    /\ nextFile = 0
    /\ reply = NoReply
    /\ exc = "none"
    /\ call = NoCall
    /\ filters = EmptyDict
    /\ file = NoFile
    /\ lastWriteOk = TRUE
    /\ failedWrites = 0
    /\ store = SeededStore
    /\ lastCatalog = EmptyDict
    /\ lastDetails = EmptyDict
    /\ lastViewed = EmptyDict
    /\ searchWait = EmptyDict
    /\ lastSummaries = EmptyDict
    /\ processed = <<>>
    /\ users = {}
    /\ settings \in deployments
    /\ runner = DBRunner
    /\ routed = NoRoute

\* no whitelist, with and without the automatic reply
OpenDeployments == {[allowed_senders |-> {}, auto_reply |-> a] : a \in BOOLEAN}

\* the events of the dedupe runs: a command, a greeting and the start of a
\* form, with an id, with another and without one; a message of the
\* account's own and an event that is not a message
DedupeEvents ==
    {Event("incomingMessageReceived", id, SenderData(s), TextData(t)) :
        id \in {PyNone, PyStr(In_m1), PyStr(In_m2)}, s \in {"u1"},
        t \in {In_Pokazat, In_privet, In_Razmestit}}
    \cup {Event("outgoingMessageReceived", PyStr(In_m1), SenderData("u2"), TextData(In_Pokazat)),
          Event("stateInstanceChanged", PyStr(In_m2), SenderData("u1"), TextData(In_Pokazat))}

NextDedupe ==
    \/ \E event \in DedupeEvents, dbOk \in BOOLEAN :
        HandleFallback(event, TRUE, DbOk, TRUE, dbOk, TRUE)
    \/ Restart

SpecDedupe == InitEntry(OpenDeployments) /\ [][NextDedupe]_vars

-----------------------------------------------------------------------------
(* Properties of the sell form, checked under SpecForm *)

\* whether the form state st waits on the photo step
OnPhotoStep(st) ==
    /\ PyIndexOk(SELL_FORM_STEPS, st.step_index)
    /\ PyIndex(SELL_FORM_STEPS, st.step_index).type = "photos"

\* C1: every sender with a stored form state has step_index in 0..N-1, N the
\* number of form steps; a state that has reached N is never left stored.
StepIndexInRange ==
    \A s \in DOMAIN states : states[s].step_index \in 0..(NSteps - 1)

\* C2: once handle_media has stored the photo that brings the count to
\* MAX_PHOTOS, the sender's next «готово» completes the form:
\* create_ad_from_form is called with the collected data and the state is
\* removed.
DoneAfterLastPhotoCompletes ==
    [][\A s \in FormSenders, db \in DbOutcomes :
        (/\ s \in DOMAIN states
         /\ Len(states[s].photos) = MAX_PHOTOS
         /\ Handle(s, PyStr(In_Gotovo), db))
        => (/\ call'.made
            /\ call'.sender = s
            /\ call'.data = states[s].data
            /\ s \notin DOMAIN states')]_vars

\* C3: whatever the sender's situation before, start(sender) leaves the sender
\* with a state at step 0 with empty data and no photos.
StartBeginsAfresh ==
    reply.kind = "start_prompt" =>
        \A s \in FormSenders :
            /\ s \in DOMAIN states
            /\ states[s].step_index = 0
            /\ states[s].data = EmptyDict
            /\ states[s].photos = <<>>

\* a form started again after photos had been stored for an earlier one
StartedAgainAfterPhotos ==
    /\ reply.kind = "start_prompt"
    /\ nextFile > 0
    /\ \A s \in FormSenders : s \in DOMAIN states /\ states[s].step_index = 0

\* C4: on the photo step with no photo collected, «готово» or «done» is
\* answered with the request for a photo; the stored states (step_index, data,
\* photos) stay as they are and create_ad_from_form is not called.
DoneWithoutPhotosRejected ==
    [][\A s \in FormSenders, db \in DbOutcomes :
        \A m \in {PyStr(In_Gotovo), PyStr(In_done)} :
            (/\ s \in DOMAIN states
             /\ OnPhotoStep(states[s])
             /\ states[s].photos = <<>>
             /\ Handle(s, m, db))
            => (/\ states' = states
                /\ reply'.kind = "add_a_photo_first"
                /\ exc' = "none"
                /\ call' = NoCall)]_vars

\* «готово» was just refused on the photo step for lack of photos
DoneRefusedOnPhotoStep ==
    /\ reply.kind = "add_a_photo_first"
    /\ \E s \in DOMAIN states : OnPhotoStep(states[s]) /\ states[s].photos = <<>>

\* C10: no exception escapes a form operation or a handler: each ends with a
\* reply or a no-op.
NoExceptionEscapes == exc = "none"

\* C11: when the last form step is finished, create_ad_from_form is attempted
\* once with the accumulated data and, whether it returns or raises, the
\* sender's form state is removed in the same operation.
LastStepFinishedCreatesAd ==
    [][\A s \in FormSenders :
        (/\ s \in DOMAIN states
         /\ OnPhotoStep(states[s])
         /\ \/ s \in DOMAIN states' /\ "photos" \in DOMAIN states'[s].data
            \/ call'.made)
        => (/\ call'.made
            /\ call'.sender = s
            /\ call'.data = DictPut(states[s].data, "photos", PyList(states[s].photos))
            /\ reply'.kind \in {"saved", "save_failed"}
            /\ s \notin DOMAIN states')]_vars

\* C12: on the steps 0..9 a text the step's validator rejects is answered with
\* the rejection reason and the prompt of the same step; the stored states
\* (step_index, data, photos) stay as they are.
RejectedTextKeepsStep ==
    [][\A s \in FormSenders, m \in WizardMessages :
        (/\ s \in DOMAIN states
         /\ states[s].step_index \in 0..9
         /\ ~Falsy(m)
         /\ Lower(Strip(m.str)) \notin CancelKeywords
         /\ ~StepValidator(states[s].step_index, Strip(m.str)).ok)
        => \A db \in DbOutcomes :
            Handle(s, m, db)
            => (/\ states' = states
                /\ reply'.kind = "error"
                /\ reply'.err = StepValidator(states[s].step_index, Strip(m.str)).err
                /\ reply'.prompt = states[s].step_index
                /\ exc' = "none"
                /\ call' = NoCall
                /\ store' = store)]_vars

\* a text was just rejected on a step after the first
RejectedOnLaterStep ==
    /\ reply.kind = "error"
    /\ \E s \in DOMAIN states :
        states[s].step_index > 0 /\ reply.prompt = states[s].step_index

\* C13: in every reachable state with an active form, handle with a cancel
\* keyword, in any letter case and with blanks around it, removes the sender's
\* state and creates no ad, and the handle call that follows returns the empty
\* string and creates no state; so does every handle call for a sender without
\* a state.
CancelRemovesForm ==
    \A s \in FormSenders, db \in DbOutcomes :
        IF s \in DOMAIN states
        THEN \A m \in CancelMessages :
                LET o == handle(states, s, m, db)
                    after == handle(o.states, s, m, db)
                IN  /\ s \notin DOMAIN o.states
                    /\ o.reply.kind = "cancelled"
                    /\ o.exc = "none"
                    /\ o.call = NoCall
                    /\ o.store = store
                    /\ after = Outcome(o.states, EmptyReply, "none", NoCall)
        ELSE \A m \in WizardMessages \cup CancelMessages :
                handle(states, s, m, db) = Outcome(states, EmptyReply, "none", NoCall)

\* a form was just cancelled after photos had been stored for it
CancelledAfterPhotos ==
    /\ reply.kind = "cancelled"
    /\ nextFile > 0
    /\ states = EmptyDict

\* C17: a sender's photos list never has more than MAX_PHOTOS entries, and
\* the photos handed to create_ad_from_form are between 1 and MAX_PHOTOS, in
\* the order in which they were stored.
PhotosWithinCap ==
    /\ \A s \in DOMAIN states : Len(states[s].photos) <= MAX_PHOTOS
    /\ call.made =>
        LET photos == call.data["photos"].list IN
        /\ Len(photos) \in 1..MAX_PHOTOS
        /\ \A i, j \in 1..Len(photos) : i < j => photos[i].path < photos[j].path

\* create_ad_from_form was just called with two photos
CalledWithTwoPhotos ==
    /\ call.made
    /\ Len(call.data["photos"].list) = 2

\* C20: no two ads of the store share a VIN, and completing a form whose VIN
\* is that of an ad of the store adds no ad, answers with the failure text and
\* removes the form state.
VinStaysUnique ==
    /\ [](\A i, j \in 1..Len(store.ads) :
            i # j => store.ads[i].vin_number # store.ads[j].vin_number)
    /\ [][\A s \in FormSenders, db \in DbOutcomes :
            \A m \in {PyStr(In_Gotovo), PyStr(In_done)} :
                (/\ s \in DOMAIN states
                 /\ OnPhotoStep(states[s])
                 /\ states[s].photos # <<>>
                 /\ \E i \in 1..Len(store.ads) :
                        store.ads[i].vin_number = states[s].data["vin"]
                 /\ Handle(s, m, db))
                => (/\ store'.ads = store.ads
                    /\ store'.images = store.images
                    /\ reply'.kind = "save_failed"
                    /\ s \notin DOMAIN states')]_vars

\* a form with the VIN of the ad an earlier form left in the store was just
\* completed and refused
DuplicateVinRefused ==
    /\ call.made
    /\ ~call.ok
    /\ reply.kind = "save_failed"
    /\ Len(store.ads) = 1
    /\ store.ads[1].vin_number = call.data["vin"]
    /\ Len(store.images) > 0
    /\ \A i \in 1..Len(store.images), j \in 1..Len(call.data["photos"].list) :
        store.images[i].image_url # call.data["photos"].list[j]


-----------------------------------------------------------------------------
(* Properties of the persisted filters, checked under SpecPersist *)

\* C5: _shift_page sets page to max(0, page + delta), and page is never
\* negative; from page 0 a shift of +2 gives 2 and a shift of -5 gives 0.
ShiftPageFloorsAtZero ==
    /\ [](\A s \in DOMAIN filters : filters[s]["page"].int >= 0)
    /\ [][\A s \in Senders, delta \in PageDeltas, wr \in WriteOutcomes :
            ShiftPage(s, delta, wr) =>
                LET old == PageOf(filters, s)
                    new == filters'[s]["page"].int
                IN  /\ old + delta >= 0 => new = old + delta
                    /\ old + delta < 0 => new = 0
                    /\ (old = 0 /\ delta = 2) => new = 2
                    /\ (old = 0 /\ delta = -5) => new = 0]_vars

\* a sender has been moved to the last page the model allows
OnLastPage ==
    \E s \in DOMAIN filters : filters[s]["page"] = PyInt(MaxPage)

\* the state a restart gives sender s from file f, the default state when the
\* file has no entry for s
ReloadedState(f, s) ==
    LET loaded == _load_filter_state(EmptyDict, f) IN
    IF s \in DOMAIN loaded THEN loaded[s] ELSE _new_filter_state

\* C6: when the last write of the file succeeded, emptying the mapping and
\* running _load_filter_state gives every sender the state held in memory,
\* key by key; a sender the file does not have counts as the default state.
RestartReproducesFilters ==
    lastWriteOk =>
        \A s \in DOMAIN filters :
            /\ DOMAIN ReloadedState(file, s) = DOMAIN filters[s]
            /\ \A k \in DOMAIN filters[s] : ReloadedState(file, s)[k] = filters[s][k]

\* two senders with different filters, both written to the file
TwoSendersPersisted ==
    /\ lastWriteOk
    /\ file.exists
    /\ DOMAIN filters = Senders
    /\ \E s, t \in Senders :
        /\ filters[s]["min_price"] # PyNone
        /\ filters[t]["year"] # PyNone
        /\ filters[s] # filters[t]

\* C16: every state of the filter mapping holds the 15 keys of the template,
\* after updates (a single-year update included) and after the load of a
\* file whose entries lack keys.
TemplateKeys ==
    {"page", "page_size", "min_price", "max_price", "year", "min_year", "max_year",
     "min_mileage", "max_mileage", "car_brand_id", "brand_name", "region",
     "condition", "sort_by", "sort_order"}

AllKeysPresent ==
    \A s \in DOMAIN filters : DOMAIN filters[s] = TemplateKeys

\* the file holds an entry without min_year and max_year for a sender whose
\* state in memory has the single year and every key
FileEntryLacksKeys ==
    /\ file.exists
    /\ "jobj" \in DOMAIN file.content
    /\ \E s \in DOMAIN filters :
        /\ s \in DOMAIN file.content.jobj
        /\ "min_year" \notin DOMAIN file.content.jobj[s].jobj
        /\ filters[s]["year"] = PyInt(2015)
        /\ DOMAIN filters[s] = TemplateKeys
    /\ exc = "none"

-----------------------------------------------------------------------------
(* Properties of the filter commands, checked under SpecFilter,
   SpecCondition and SpecSort *)

\* the text after the command word of «word X»
CommandArgument(t) == Strip(SplitMax1(t)[2])

\* the value of filter k that the handlers read for sender s
StoredValue(flt, s, k) == _ensure_state(flt, s)[s][k]

\* C7: «регион X»: for X one of «любой», «-», «any» in any letter case the
\* region becomes unset; otherwise, for X of at least 2 characters, the region
\* becomes X in title case; whatever region was stored before.
RegionCommandOutcome ==
    [][\A s \in FilterSenders, t \in RegionTexts, dbOk \in BOOLEAN :
        (Len(SplitMax1(t)) = 2 /\ UpdateRegionFilter(s, t, "ok", dbOk)) =>
            LET X == CommandArgument(t) IN
            IF Lower(X) \in {T_lyuboj, T_dash, T_any}
            THEN StoredValue(filters', s, "region") = PyNone
            ELSE Len(X) >= 2 => StoredValue(filters', s, "region") = PyStr(Title(X))]_vars

\* C8: the condition filter is always unset, «целый» or «после дтп»;
\* «состояние X» stores the canonical value of a synonym X in any letter case,
\* unsets the filter for «любой», «-», «any», and for any other X answers with
\* the hint and changes nothing.
ConditionCanonical ==
    /\ [](\A s \in FilterSenders :
            StoredValue(filters, s, "condition")
                \in {PyNone, PyStr(T_celyj), PyStr(T_posle_dtp)})
    /\ [][\A s \in FilterSenders, t \in ConditionTexts, dbOk \in BOOLEAN :
            (Len(SplitMax1(t)) = 2 /\ UpdateConditionFilter(s, t, "ok", dbOk)) =>
                LET X == Lower(CommandArgument(t)) IN
                CASE X \in {T_celyj, T_celaya, T_bez_dtp, T_ne_bityj, T_nebityj} ->
                        StoredValue(filters', s, "condition") = PyStr(T_celyj)
                  [] X \in {T_posle_dtp, T_bityj, T_bitaya, T_remont, T_remontirovalsya} ->
                        StoredValue(filters', s, "condition") = PyStr(T_posle_dtp)
                  [] X \in {T_lyuboj, T_dash, T_any} ->
                        StoredValue(filters', s, "condition") = PyNone
                  [] OTHER ->
                        /\ reply'.kind = "condition_not_understood"
                        /\ filters' = filters]_vars

\* an unrecognized condition was just refused while a condition is stored
UnknownConditionRefused ==
    /\ reply.kind = "condition_not_understood"
    /\ \E s \in DOMAIN filters : filters[s]["condition"] = PyStr(T_posle_dtp)

\* the tokens of a sort command after the command word
SortTokens(t) == Split(_strip_sort_command(t))
HasKey(t) ==
    /\ _strip_sort_command(t) # <<>>
    /\ SortTokens(t)[1] \in _SORT_PRICE_TOKENS \cup _SORT_DATE_TOKENS
HasAsc(t) == \E i \in 2..Len(SortTokens(t)) : SortTokens(t)[i] \in _ASC_TOKENS
HasDesc(t) == \E i \in 2..Len(SortTokens(t)) : SortTokens(t)[i] \in _DESC_TOKENS
KeyOf(t) == IF SortTokens(t)[1] \in _SORT_PRICE_TOKENS THEN T_price ELSE T_created

\* C9: a sort command with a recognized key sets sort_by to price for a price
\* token and to created for a date token; sort_order is asc only when the
\* tokens after the key hold an ascending token and no descending token, and
\* desc when the direction is missing or ambiguous.
SortDescWhenAmbiguous ==
    [][\A s \in FilterSenders, t \in SortTexts, dbOk \in BOOLEAN :
        (HasKey(t) /\ UpdateSorting(s, t, "ok", dbOk)) =>
            /\ StoredValue(filters', s, "sort_by") = PyStr(KeyOf(t))
            /\ StoredValue(filters', s, "sort_order") =
                   PyStr(IF HasAsc(t) /\ ~HasDesc(t) THEN T_asc ELSE T_desc)]_vars

\* C9, amended: sort_by as above; sort_order is asc whenever the tokens after
\* the key hold an ascending token, with or without a descending one, and
\* desc otherwise.
SortAscWhenAnyAscToken ==
    [][\A s \in FilterSenders, t \in SortTexts, dbOk \in BOOLEAN :
        (HasKey(t) /\ UpdateSorting(s, t, "ok", dbOk)) =>
            /\ StoredValue(filters', s, "sort_by") = PyStr(KeyOf(t))
            /\ StoredValue(filters', s, "sort_order") =
                   PyStr(IF HasAsc(t) THEN T_asc ELSE T_desc)]_vars

\* the catalog is sorted by date, oldest first: only a command with both a
\* descending and an ascending token leads here
SortedByDateAscending ==
    \E s \in DOMAIN filters :
        /\ filters[s]["sort_by"] = PyStr(T_created)
        /\ filters[s]["sort_order"] = PyStr(T_asc)

-----------------------------------------------------------------------------
(* Properties of paging and of the year filter *)

\* the filter fields of a state: every key but the page and its size
FilterFields == TemplateKeys \ {"page", "page_size"}

\* the outcomes of the seven filter commands for the sender, for every text
\* of the command and whether or not the store answers
FilterCommandOutcomes(s) ==
    UNION {
        {_update_price_filter(filters, s, t, dbOk) : t \in PriceTexts}
        \cup {_update_year_filter(filters, s, t, dbOk) : t \in YearTexts \cup YearEdgeTexts}
        \cup {_update_mileage_filter(filters, s, t, dbOk) : t \in MileageTexts}
        \cup {_update_brand_filter(filters, s, t, dbOk) : t \in BrandTexts}
        \cup {_update_region_filter(filters, s, t, dbOk) : t \in RegionTexts}
        \cup {_update_condition_filter(filters, s, t, dbOk) : t \in ConditionTexts}
        \cup {_update_sorting(filters, s, t, dbOk) : t \in SortTexts}
        : dbOk \in BOOLEAN}

\* C14: in every reachable state, a price, year, mileage, brand, region,
\* condition or sort command that changes a filter field of the sender leaves
\* the sender's page at 0, in memory and in what is persisted.
FilterChangeResetsPage ==
    \A s \in FilterSenders :
        \A o \in FilterCommandOutcomes(s) :
            (\E k \in FilterFields : StoredValue(o.filters, s, k) # StoredValue(filters, s, k))
            => /\ StoredValue(o.filters, s, "page") = PyInt(0)
               /\ o.persisted
               /\ StoredValue(o.snapshot, s, "page") = PyInt(0)

\* the sender is beyond the first page and has no mileage filter, so that the
\* mileage command changes a field there
BeyondFirstPageWithoutMileage ==
    \E s \in DOMAIN filters :
        /\ filters[s]["page"].int > 0
        /\ filters[s]["min_mileage"] = PyNone
        /\ filters[s]["min_price"] # PyNone

\* C15: a filter state never has a year together with min_year or max_year;
\* a year command with two present and distinct bounds stores the range and
\* clears the year, any other year command stores the single year (or none)
\* and clears the range.
YearEitherOr ==
    /\ [](\A s \in DOMAIN filters :
            StoredValue(filters, s, "year") = PyNone
            \/ (/\ StoredValue(filters, s, "min_year") = PyNone
                /\ StoredValue(filters, s, "max_year") = PyNone))
    /\ [][\A s \in FilterSenders, t \in YearTexts \cup YearEdgeTexts :
            UpdateYearFilter(s, t, "ok", TRUE) =>
                LET low == _parse_range(t)[1]
                    high == _parse_range(t)[2]
                    stored == <<StoredValue(filters', s, "year"),
                                StoredValue(filters', s, "min_year"),
                                StoredValue(filters', s, "max_year")>>
                IN  IF low # PyNone /\ high # PyNone /\ low # high
                    THEN stored = <<PyNone, low, high>>
                    ELSE stored = <<low, PyNone, PyNone>>]_vars

\* what the code does with the commands of the year filter: a bound of 0
\* counts as absent, so that 0-2015 stores the single year 0
YearCommandsAsCoded ==
    \A s \in FilterSenders, dbOk \in BOOLEAN :
        LET Stored(t) ==
                LET o == _update_year_filter(filters, s, t, dbOk) IN
                <<StoredValue(o.filters, s, "year"),
                  StoredValue(o.filters, s, "min_year"),
                  StoredValue(o.filters, s, "max_year")>>
        IN  /\ Stored(Cmd_god_range) = <<PyNone, PyInt(2010), PyInt(2015)>>
            /\ Stored(Cmd_god_2015) = <<PyInt(2015), PyNone, PyNone>>
            /\ Stored(Cmd_god_same) = <<PyInt(2015), PyNone, PyNone>>
            /\ Stored(Cmd_god_zero) = <<PyInt(0), PyNone, PyNone>>
            /\ Stored(Cmd_god) = <<PyNone, PyNone, PyNone>>

-----------------------------------------------------------------------------
(* Properties of the catalog, checked under SpecCatalog *)

\* the number of active rows of the store that pass the sender's filters
MatchingCount(s) ==
    Cardinality({i \in 1..Len(store.ads) : AdMatches(store.ads[i], filters[s])})

\* ceil(total / size) with a floor of 1
CeilPages(total, size) ==
    CHOOSE n \in 1..(total + 1) :
        /\ n * size >= total
        /\ n = 1 \/ (n - 1) * size < total

\* whether the button is among those of the message
Offers(buttons, b) == \E i \in 1..Len(buttons) : buttons[i] = b

-----------------------------------------------------------------------------
(* The range parser on its own: SpecRange draws a text and applies
   _parse_range to it; reply holds the text and then the value returned *)

\* the longest text drawn from the alphabet
MaxRangeLen == 5

\* "0", "7", "-" and a letter
RangeAlphabet == {48, 55, 45, 1094}

In_cena_100_200 == <<1094, 1077, 1085, 1072, 32, 49, 48, 48, 45, 50, 48, 48>>  \* "цена 100-200"
In_god_2020 == <<1075, 1086, 1076, 32, 50, 48, 50, 48>>  \* "год 2020"
In_net_chisel == <<1085, 1077, 1090, 32, 1095, 1080, 1089, 1077, 1083>>  \* "нет чисел"

RangeTexts ==
    UNION {[1..n -> RangeAlphabet] : n \in 0..MaxRangeLen}
        \cup {In_cena_100_200, In_god_2020, In_net_chisel}

InitRange ==
    /\ states = EmptyDict
    /\ nextFile = 0
    /\ reply \in {[kind |-> "range_input", text |-> t] : t \in RangeTexts}
    /\ exc = "none"
    /\ call = NoCall
    /\ filters = EmptyDict
    /\ file = NoFile
    /\ lastWriteOk = TRUE
    /\ failedWrites = 0
    /\ store = EmptyStore
    /\ lastCatalog = EmptyDict
    /\ lastDetails = EmptyDict
    /\ lastViewed = EmptyDict
    /\ searchWait = EmptyDict
    /\ lastSummaries = EmptyDict
    /\ processed = <<>>
    /\ users = {}
    /\ settings = DefaultSettings
    /\ runner = DBRunner
    /\ routed = NoRoute

\* _parse_range(text) is called and returns
ParseRange ==
    /\ reply.kind = "range_input"
    /\ reply' = [kind |-> "range", text |-> reply.text,
                 value |-> _parse_range(reply.text)]
    /\ UNCHANGED <<states, nextFile, exc, call, filters, file, lastWriteOk,
                   failedWrites, store, cacheVars, entryVars>>

NextRange == ParseRange

SpecRange == InitRange /\ [][NextRange]_vars

\* the positions of text at which a group of digits begins
GroupStarts(text) ==
    {i \in 1..Len(text) :
        IsDigit(text[i]) /\ (i = 1 \/ ~IsDigit(text[i - 1]))}

\* the number written by the digits of text from position i to position j
RECURSIVE RunValue(_, _, _)
RunValue(text, i, j) ==
    IF j < i THEN 0 ELSE RunValue(text, i, j - 1) * 10 + (text[j] - 48)

\* the number written by the group of digits that begins at position i
GroupValue(text, i) ==
    LET j == CHOOSE k \in i..Len(text) :
                /\ \A m \in i..k : IsDigit(text[m])
                /\ k = Len(text) \/ ~IsDigit(text[k + 1])
    IN  PyInt(RunValue(text, i, j))

\* the least element of a non-empty set of positions
Least(S) == CHOOSE i \in S : \A j \in S : i <= j

\* C21: _parse_range returns (None, None) for a text without a group of
\* digits, (v, None) for a text with one group and (first, second) for a
\* text with two groups or more, e.g. (100, 200) for "цена 100-200",
\* (2020, None) for "год 2020" and (None, None) for "нет чисел".
ParseRangeByGroups ==
    reply.kind = "range" =>
        LET text == reply.text
            starts == GroupStarts(text)
            first == Least(starts)
            second == Least(starts \ {first})
        IN  /\ starts = {} => reply.value = <<PyNone, PyNone>>
            /\ Cardinality(starts) = 1 =>
                    reply.value = <<GroupValue(text, first), PyNone>>
            /\ Cardinality(starts) >= 2 =>
                    reply.value = <<GroupValue(text, first), GroupValue(text, second)>>
            /\ text = In_cena_100_200 => reply.value = <<PyInt(100), PyInt(200)>>
            /\ text = In_god_2020 => reply.value = <<PyInt(2020), PyNone>>
            /\ text = In_net_chisel => reply.value = <<PyNone, PyNone>>

\* a text of three groups was parsed: "7-0-7" gave (7, 0)
ThreeGroupsParsed ==
    /\ reply.kind = "range"
    /\ reply.text = <<55, 45, 48, 45, 55>>
    /\ reply.value = <<PyInt(7), PyInt(0)>>

-----------------------------------------------------------------------------
(* Frame of handle_media, checked under SpecForm *)

\* whether the message carries a download URL where _extract_media reads it
HasDownloadUrl(message_data) ==
    \/ /\ message_data.fileMessageData # PyNone
       /\ message_data.fileMessageData.downloadUrl # PyNone
    \/ /\ message_data.fileMessageData = PyNone
       /\ message_data.imageMessageData # PyNone
       /\ message_data.imageMessageData.downloadUrl # PyNone

\* C24: handle_media changes a form state only when the sender's form is on
\* the photo step, the message is an imageMessage or a documentMessage with
\* a download URL and the download succeeds, and then it stores one photo
\* more; in every other case photos, data and step_index stay as they were.
MediaChangesOnlyOnStoredPhoto ==
    \A s \in FormSenders, md \in MediaMessages, dlOk \in BOOLEAN :
        LET o == handle_media(states, nextFile, s, md, dlOk)
            stored == /\ s \in DOMAIN states
                      /\ states[s].step_index = NSteps - 1
                      /\ md.typeMessage \in {"imageMessage", "documentMessage"}
                      /\ HasDownloadUrl(md)
                      /\ dlOk
        IN  /\ DOMAIN o.states = DOMAIN states
            /\ \A t \in DOMAIN states : t # s => o.states[t] = states[t]
            /\ ~stored => o.states = states
            /\ stored => Len(o.states[s].photos) = Len(states[s].photos) + 1

\* a download failed on the photo step of a form that holds a photo
DownloadFailedWithPhotoKept ==
    /\ reply.kind = "photo_not_saved"
    /\ \E s \in DOMAIN states :
        /\ states[s].step_index = NSteps - 1
        /\ Len(states[s].photos) = 1

-----------------------------------------------------------------------------
(* Order of the steps, checked under SpecWizard *)

\* the keys of the steps before the 0-based index i
KeysBefore(i) == {SELL_FORM_STEPS[k].key : k \in 1..i}

\* C25: the steps are answered in their fixed order: the data of a form
\* holds the keys of exactly the steps before step_index; a state object
\* (start installs a new one) changes its step_index by +1 only, and only
\* as an accepted input of step i stores the validated value under the key
\* of step i; the index never decreases and never skips a step.
StepsInOrder ==
    /\ [](\A s \in DOMAIN states :
            /\ states[s].step_index \in 0..NSteps
            /\ DOMAIN states[s].data = KeysBefore(states[s].step_index))
    /\ [][\A s \in FormSenders :
            (s \in DOMAIN states /\ s \in DOMAIN states') =>
                LET a == states[s]
                    b == states'[s]
                    i == a.step_index
                IN  \/ reply'.kind = "start_prompt" /\ b = SellFormState
                    \/ b.step_index = i /\ b.data = a.data
                    \/ /\ b.step_index = i + 1
                       /\ i < NSteps - 1
                       /\ reply' = [kind |-> "prompt", step |-> i + 1]
                       /\ b.photos = a.photos
                       /\ \E m \in WizardMessages \ {PyNone} :
                            LET res == StepValidator(i, Strip(m.str)) IN
                            /\ res.ok
                            /\ b.data = DictPut(a.data, SELL_FORM_STEPS[i + 1].key,
                                                res.value)
                    \/ /\ b.step_index = i + 1
                       /\ i = NSteps - 1
                       /\ Len(b.photos) = MAX_PHOTOS
                       /\ b.data = DictPut(a.data, "photos", PyList(b.photos))]_vars

\* the form of a sender stands on the region step with the eight answers
\* before it stored
EightStepsAnswered ==
    \E s \in DOMAIN states :
        /\ states[s].step_index = 8
        /\ states[s].data["year"] = PyInt(2020)
        /\ reply = [kind |-> "prompt", step |-> 8]

-----------------------------------------------------------------------------
(* Filter commands that are answered with a hint: SpecHints pages through
   a sorted, priced catalog and sends the commands that are refused *)

NextHints ==
    \/ \E s \in FilterSenders :
        \/ \E delta \in {-1, 1} : ShiftPage(s, delta, "ok")
        \/ \E dbOk \in BOOLEAN :
            \/ UpdatePriceFilter(s, Cmd_cena_range, "ok", dbOk)
            \/ \E t \in {Cmd_marka_toyota, Cmd_marka_lada, Cmd_marka} :
                    UpdateBrandFilter(s, t, "ok", dbOk)
            \/ \E t \in {Cmd_region_mahachkala, Cmd_region_m, Cmd_region} :
                    UpdateRegionFilter(s, t, "ok", dbOk)
            \/ \E t \in {Cmd_sostoyanie_novyj, Cmd_sostoyanie} :
                    UpdateConditionFilter(s, t, "ok", dbOk)
            \/ \E t \in {Cmd_sort_cena_deshevle, Cmd_sort_cvet, Cmd_sort} :
                    UpdateSorting(s, t, "ok", dbOk)
    \/ Restart

SpecHints == Init /\ [][NextHints]_vars

\* the replies that are a usage hint or a not-found message
HintKinds ==
    {"brand_usage", "brand_not_found", "region_usage", "region_too_short",
     "condition_usage", "condition_not_understood", "sort_usage", "sort_key_hint"}

\* C27: a filter command answered with a usage hint or a not-found message
\* leaves every field of every sender's filter state (page, sort_by and
\* sort_order among them), the caches and the persisted file as they were.
HintLeavesFiltersAlone ==
    [][reply'.kind \in HintKinds =>
        /\ \A s \in FilterSenders, k \in TemplateKeys :
                StoredValue(filters', s, k) = StoredValue(filters, s, k)
        /\ DOMAIN filters \subseteq DOMAIN filters'
        /\ file' = file
        /\ lastCatalog' = lastCatalog
        /\ lastDetails' = lastDetails]_vars

\* an unknown sort key was refused on a later page of a catalog sorted by
\* price, with the filters on file
SortKeyRefusedOnLaterPage ==
    /\ reply.kind = "sort_key_hint"
    /\ file.exists
    /\ \E s \in DOMAIN filters :
        /\ filters[s]["page"].int > 0
        /\ filters[s]["sort_by"] = PyStr(T_price)
        /\ filters[s]["sort_order"] = PyStr(T_asc)

-----------------------------------------------------------------------------
(* Ad creation as one unit, checked under SpecStore *)

-----------------------------------------------------------------------------
(* The lookup of a public ad id on its own *)

\* the texts a sender types to open an ad, each with what it spells:
\* a number n alone, «id» followed by a number, or no number at all
NumberTexts ==
    {[text |-> PyStr(<<48 + n>>), means |-> "number", n |-> n] : n \in 0..6}
    \cup {[text |-> PyStr(<<32, 48, 48 + n, 32>>), means |-> "number", n |-> n] : n \in {0, 2}}
IdTexts ==
    {[text |-> PyStr(<<105, 100, 48 + n>>), means |-> "id", n |-> n] : n \in {0, 3, 8}}
    \cup {[text |-> PyStr(<<73, 68, 35, 57, 32, 49>>), means |-> "id", n |-> 9],
          [text |-> PyStr(<<32, 105, 100, 32, 49, 50>>), means |-> "id", n |-> 12]}
OtherTexts ==
    {[text |-> PyStr(T_id), means |-> "nothing", n |-> 0],
     [text |-> PyStr(<<97, 51>>), means |-> "nothing", n |-> 0],
     [text |-> PyStr(<<50, 32, 51>>), means |-> "nothing", n |-> 0],
     [text |-> PyStr(<<45, 49>>), means |-> "nothing", n |-> 0]}
LookupTexts == NumberTexts \cup IdTexts \cup OtherTexts

\* _extract_public_id(sender, text)
ExtractPublicId(s, text, dbOk) ==
    ApplyFilter(_extract_public_id(filters, lastCatalog, s, text.str, dbOk), "ok")

NextLookup ==
    \/ \E s \in FilterSenders :
        \/ \E delta \in {-1, 1} : ShiftPage(s, delta, "ok")
        \/ ResetFilters(s, "ok")
        \/ \E dbOk \in BOOLEAN, navOk \in BOOLEAN : SendCatalog(s, dbOk, navOk)
        \/ \E dbOk \in BOOLEAN, t \in PriceTexts : UpdatePriceFilter(s, t, "ok", dbOk)
        \/ \E dbOk \in BOOLEAN, t \in LookupTexts : ExtractPublicId(s, t.text, dbOk)

\* ids looked up in the catalog of a store that holds listings
SpecLookup == InitCatalog /\ [][NextLookup]_vars

\* the ids of the page the sender's filters select now
FreshIds(s) ==
    LET state == _ensure_state(filters, s)[s]
        ads == filter_public_ads(state, state["page"].int, state["page_size"].int)
    IN  [i \in 1..Len(ads) |-> ads[i].id]

CachedIds(s) == IF s \in DOMAIN lastCatalog THEN lastCatalog[s] ELSE <<>>

-----------------------------------------------------------------------------
(* The dedupe of handle_fallback *)

\* whether the event is a message whose id is not recorded
FirstDelivery(event) ==
    /\ guard_sender(event, settings.allowed_senders)
    /\ event.typeWebhook \in {"incomingMessageReceived", "outgoingMessageReceived"}
    /\ ~Falsy(event.idMessage)
    /\ ~InDeque(processed, event.idMessage)

\* whether the event is a message whose id is recorded
LaterDelivery(event) ==
    /\ guard_sender(event, settings.allowed_senders)
    /\ event.typeWebhook \in {"incomingMessageReceived", "outgoingMessageReceived"}
    /\ ~Falsy(event.idMessage)
    /\ InDeque(processed, event.idMessage)

\* the step leaves what the media, form and text handling of the event
\* leave, with the id recorded
ProcessedStep(event, dbOk) ==
    \E w \in {Dispatch([World EXCEPT !.processed = DequeAppend(@, event.idMessage)], event,
                       settings.auto_reply, TRUE, DbOk, TRUE, dbOk, TRUE)} :
        /\ processed' = w.processed
        /\ users' = w.users
        /\ states' = w.states
        /\ filters' = w.filters
        /\ lastCatalog' = w.lastCatalog
        /\ reply' = IF w.sent = <<>> THEN NoReply ELSE w.sent[1]
        /\ exc' = w.exc

\* the step sends nothing, writes nothing and changes nothing
IgnoredStep ==
    /\ reply' = NoReply
    /\ exc' = "none"
    /\ call' = NoCall
    /\ UNCHANGED <<states, nextFile, filterVars, store, cacheVars, processed, users, settings>>

\* a later delivery of a recorded id is ignored
LaterDeliveryIgnored ==
    [][\A event \in DedupeEvents, dbOk \in BOOLEAN :
        (LaterDelivery(event) /\ HandleFallback(event, TRUE, DbOk, TRUE, dbOk, TRUE))
            => IgnoredStep]_vars

\* C22: handle_fallback processes each message id exactly once: the first
\* event with an id that is not recorded is processed (the media, form and
\* text handling run for it), a later event with a recorded id is ignored
\* without a reply and without a change of state.
EachIdProcessedOnce ==
    /\ [][\A event \in DedupeEvents, dbOk \in BOOLEAN :
            (FirstDelivery(event) /\ HandleFallback(event, TRUE, DbOk, TRUE, dbOk, TRUE))
                => ProcessedStep(event, dbOk)]_vars
    /\ LaterDeliveryIgnored

\* what the code does with the first delivery of an id: the id is recorded
\* and nothing else happens, no user row, no reply, no form or filter step
FirstDeliveryOnlyRecorded ==
    [][processed' # processed /\ processed' # <<>> =>
        /\ reply' = NoReply
        /\ exc' = "none"
        /\ call' = NoCall
        /\ UNCHANGED <<states, nextFile, filterVars, store, cacheVars, users>>]_vars

\* an event with an id never gets an answer: a step that answers leaves
\* the recorded ids as they are
AnswersOnlyWithoutId ==
    [][reply' # NoReply => processed' = processed]_vars

-----------------------------------------------------------------------------
(* A number or an id after the catalog *)

\* the texts that ask for an entry: a position in the last page, and an id
EntryTexts ==
    {[text |-> In_2, position |-> 2, id |-> 0],
     [text |-> In_id3, position |-> 0, id |-> 3]}

\* a sender without ads and the owner of the listings look at the catalog,
\* turn the page and ask for an entry
EntryEvents ==
    {Incoming(s, TextData(t)) : s \in {"u1", "u2"}, t \in {In_Pokazat, In_2, In_id3}}
    \cup {Incoming("u1", TextData(In_Dalshe))}

NextEntry ==
    \/ \E event \in EntryEvents, dbOk \in BOOLEAN :
        HandleFallback(event, TRUE, DbOk, TRUE, dbOk, TRUE)
    \/ Restart

SpecEntry == InitEntry({DefaultSettings}) /\ [][NextEntry]_vars

\* the step shows the public ad with this id to the sender and makes it the
\* sender's last viewed
OpensEntry(sender, ad_id) ==
    /\ reply'.kind = "buy_detail"
    /\ reply'.ad.id = ad_id
    /\ sender \in DOMAIN lastViewed'
    /\ lastViewed'[sender] = ad_id

\* C23: for a sender without a form whose last rendered catalog has k rows,
\* a bare number n with 1 <= n <= k, or «id<digits>», handled by
\* handle_fallback opens the catalog entry: the detail of the n-th ad of the
\* last rendered list, or of the public ad with the id, is shown and becomes
\* the sender's last viewed.
NumberOpensCatalogEntry ==
    [][\A s \in {"u1", "u2"}, e \in EntryTexts :
        (/\ ~has_state(states, s)
         /\ s \in DOMAIN lastCatalog
         /\ e.position > 0 => e.position <= Len(lastCatalog[s])
         /\ HandleFallback(Incoming(s, TextData(e.text)), TRUE, DbOk, TRUE, TRUE, TRUE))
        => OpensEntry(s, IF e.position > 0 THEN lastCatalog[s][e.position] ELSE e.id)]_vars

\* what the code does with a number or an id: handle_sell_text takes it as
\* a request for one of the sender's own ads and answers, and the buy
\* section is not asked
NumberGoesToSellSection ==
    [][\A s \in {"u1", "u2"}, e \in EntryTexts, dbOk \in BOOLEAN :
        (/\ ~has_state(states, s)
         /\ HandleFallback(Incoming(s, TextData(e.text)), TRUE, DbOk, TRUE, dbOk, TRUE))
        => /\ IF ~dbOk THEN exc' = "DBError" /\ reply' = NoReply
              ELSE IF s = "u2"
              THEN reply' = [kind |-> "sell_detail",
                             id |-> IF e.position > 0 THEN e.position ELSE e.id]
              ELSE reply' = [kind |-> "sell_not_found"]
           /\ UNCHANGED <<filters, lastCatalog, lastDetails, lastViewed>>]_vars

\* no run of handle_fallback ever sets a last-viewed ad
NothingViewed == lastViewed = EmptyDict

-----------------------------------------------------------------------------
(* The form before the commands *)

\* texts that are commands of the sell and of the buy section, for a sender
\* who starts a form, and a second sender who only looks at the catalog
FormFirstEvents ==
    {Incoming("u1", TextData(t)) :
        t \in {In_Razmestit, In_Pokazat, Cmd_cena_range}}
    \cup {Incoming("u1", ExtendedData(In_Poisk_avto)),
          Event("incomingMessageReceived", PyStr(In_m1), SenderData("u1"), TextData(In_Pokazat)),
          Incoming("u2", TextData(In_Pokazat))}

\* the form steps the runs of the form go through
MaxFormStep == 2

NextFormFirst ==
    \/ \E event \in FormFirstEvents :
        /\ has_state(states, chat_sender(event))
                => states[chat_sender(event)].step_index < MaxFormStep
        /\ HandleFallback(event, TRUE, DbOk, TRUE, TRUE, TRUE)
    \/ Restart

SpecFormFirst == InitEntry({DefaultSettings}) /\ [][NextFormFirst]_vars

-----------------------------------------------------------------------------
(* The whitelist *)

\* ALLOWED_SENDERS with the full id of u1 and the local part of u2
T_2 == <<50>>  \* "2"
Whitelist == {Chat_1, T_2}
GuardDeployments == {[allowed_senders |-> Whitelist, auto_reply |-> TRUE]}

\* events of a listed sender, of a sender listed by the local part, of a
\* sender that is not listed and of nobody, as texts and as buttons
GuardEvents ==
    {Incoming("u1", TextData(In_Pokazat)),
     Event("incomingMessageReceived", PyNone, ChatOnly("u2"), ButtonData("buy_all")),
     Incoming("u3", TextData(In_Pokazat)),
     Event("incomingMessageReceived", PyStr(In_m1), SenderData("u3"), TextData(In_Razmestit)),
     Event("incomingMessageReceived", PyNone, ChatOnly("u3"), ButtonData("sell_create")),
     Event("incomingMessageReceived", PyNone, Nobody, TextData(In_Pokazat)),
     Event("outgoingMessageReceived", PyNone, Nobody, ButtonData("buy_all"))}

NextGuard ==
    \/ \E event \in GuardEvents, userOk \in BOOLEAN :
        \/ HandleFallback(event, userOk, DbOk, TRUE, TRUE, TRUE)
        \/ HandleStart(event, userOk, "ok")
        \/ HandleBalance(event, userOk, TRUE)
        \/ HandleMainMenu(event, userOk)
        \/ HandleMenuSelection(event, userOk, TRUE, TRUE)
        \/ HandleMenuText(event, userOk, TRUE, TRUE)
    \/ Restart

SpecGuard == InitEntry(GuardDeployments) /\ [][NextGuard]_vars

\* whether the sender is known and its chat id, or the part of it before
\* the first "@", is in the whitelist
Listed(sender, allowed) ==
    /\ sender # "unknown"
    /\ \/ ChatId[sender] \in allowed
       \/ \E i \in 1..Len(ChatId[sender]) :
            /\ ChatId[sender][i] = 64
            /\ \A j \in 1..(i - 1) : ChatId[sender][j] # 64
            /\ SubSeq(ChatId[sender], 1, i - 1) \in allowed

\* C30: with a whitelist that is not empty, an event whose sender is not
\* listed, by the full id or by the part before "@", or cannot be
\* determined, gets no reply, makes no database write and changes no form,
\* filter, cache or dedupe state, whatever the handler.
UnlistedSendersIgnored ==
    [][(/\ routed'.handler # "none"
        /\ settings.allowed_senders # {}
        /\ ~Listed(routed'.sender, settings.allowed_senders)) => IgnoredStep]_vars

\* an event of the unlisted sender has gone through handle_menu_selection
\* after the two listed senders were served
UnlistedAfterListed ==
    /\ settings.allowed_senders = Whitelist
    /\ routed = [handler |-> "handle_menu_selection", sender |-> "u3"]
    /\ users = {"u1", "u2"}
    /\ "u2" \in DOMAIN lastCatalog
    /\ reply = NoReply
-----------------------------------------------------------------------------
(* A detail request for an ad that is nowhere *)

In_car == <<99, 97, 114>>  \* "car"
In_id8 == <<105, 100, 56>>  \* "id8"
In_zz == <<122, 122>>  \* "zz"

\* handle_menu_text has looked up no button for the text and calls
\* handle_buy_text(notification, settings, sender, text)
HandleBuyText(event, dbOk, navOk) ==
    /\ ~AsksForFavourites(event)
    /\ Commit(handle_buy_text(World, event, chat_sender(event), _message_text(event),
                              TRUE, dbOk, navOk).w, "ok", "handle_buy_text", event)

\* a sender looks at the catalog, searches, and asks for the ad 3, which is
\* active, and the ad 8, which is not
DetailEvents ==
    {Incoming(s, TextData(t)) : s \in {"u1"},
        t \in {In_Pokazat, In_Poisk_avto, In_car, In_zz, In_id3, In_id8}}
    \cup {Incoming("u2", TextData(In_id8))}

NextDetail ==
    \/ \E event \in DetailEvents, dbOk \in BOOLEAN : HandleBuyText(event, dbOk, TRUE)
    \/ Restart

SpecDetail == InitEntry({DefaultSettings}) /\ [][NextDetail]_vars

\* the step answers a detail request with the not-found message
NotFoundStep ==
    /\ routed'.handler = "handle_buy_text"
    /\ reply'.kind = "buy_not_found"

\* C31: a detail request for an ad that is neither in the caches nor in
\* the store is answered with the not-found message and leaves the
\* sender's filter state, last-viewed id and cached catalog list as they
\* were before the request.
NotFoundChangesNothing ==
    [][NotFoundStep =>
        /\ filters' = filters
        /\ lastViewed' = lastViewed
        /\ lastCatalog' = lastCatalog
        /\ lastDetails' = lastDetails]_vars

\* what the code does on the way to the not-found message: the sender gets
\* a filter state when there was none and the catalog is rendered again, so
\* the cached list becomes the page the filters select; the last viewed id,
\* the search flag and the other senders' entries stay
NotFoundRendersAgain ==
    [][NotFoundStep =>
        LET s == routed'.sender IN
        /\ filters' = _ensure_state(filters, s)
        /\ lastCatalog' = DictPut(lastCatalog, s, FreshIds(s))
        /\ DOMAIN lastDetails' = DOMAIN lastDetails \cup {s}
        /\ \A o \in DOMAIN lastDetails \ {s} : lastDetails'[o] = lastDetails[o]
        /\ lastViewed' = lastViewed
        /\ searchWait' = searchWait]_vars

\* the list a search left was replaced by the first page of the catalog
\* when the ad 8 was not found
SearchListLostOnNotFound ==
    /\ routed = [handler |-> "handle_buy_text", sender |-> "u1"]
    /\ reply.kind = "buy_not_found"
    /\ lastCatalog["u1"] = <<7, 6, 5, 4, 3>>
    /\ lastViewed = EmptyDict

-----------------------------------------------------------------------------
(* The reset of the filters *)

In_start == <<47, 115, 116, 97, 114, 116>>  \* "/start"
In_Sbros == <<1057, 1073, 1088, 1086, 1089>>  \* "Сброс"

\* a sender browses, turns the page, sets a price range, waits for a search
\* query and opens an ad; another looks at the catalog
BrowseEvents ==
    {Incoming("u1", TextData(t)) :
        t \in {In_Pokazat, In_Dalshe, In_Poisk_avto, In_id3, Cmd_cena_range, In_Sbros}}
    \cup {Incoming("u2", TextData(In_Pokazat))}

\* the events that end in _reset_filters and nothing after it that touches
\* the state: /start and the button buy
ResetEvents ==
    {Incoming(s, TextData(In_start)) : s \in Senders}
    \cup {Incoming(s, ButtonData("buy")) : s \in Senders}

NextReset ==
    \/ \E event \in BrowseEvents : HandleBuyText(event, TRUE, TRUE)
    \/ \E s \in Senders, wr \in WriteOutcomes : ResetFilters(s, wr)
    \/ \E event \in ResetEvents, wr \in WriteOutcomes : HandleStart(event, TRUE, wr)
    \/ \E event \in ResetEvents, b \in {"buy", "buy_all"} :
        HandleMenuSelection(Incoming(chat_sender(event), ButtonData(b)), TRUE, TRUE, TRUE)

SpecReset == InitEntry({DefaultSettings}) /\ [][NextReset]_vars

\* the state is the default one: page 0, page_size 5, sort created/desc and
\* every filter unset
IsDefaultState(state) ==
    /\ DOMAIN state = TemplateKeys
    /\ state["page"] = PyInt(0)
    /\ state["page_size"] = PyInt(5)
    /\ state["sort_by"] = PyStr(T_created)
    /\ state["sort_order"] = PyStr(T_desc)
    /\ \A k \in TemplateKeys \ {"page", "page_size", "sort_by", "sort_order"} :
            state[k] = PyNone

\* the step is _reset_filters(s) called on its own, or the /start or the
\* button buy of s, which call it and then only answer
ResetStep(s) ==
    \/ \E wr \in WriteOutcomes : ResetFilters(s, wr)
    \/ /\ routed' = [handler |-> "handle_start", sender |-> s]
       /\ reply'.kind = "start_text"
    \/ /\ routed' = [handler |-> "handle_menu_selection", sender |-> s]
       /\ reply'.kind = "buy_menu"

\* the step leaves the defaults for s and none of the four cache entries
LeavesDefaults(s) ==
    /\ s \in DOMAIN filters'
    /\ IsDefaultState(filters'[s])
    /\ s \notin DOMAIN lastCatalog'
    /\ s \notin DOMAIN lastDetails'
    /\ s \notin DOMAIN lastViewed'
    /\ s \notin DOMAIN searchWait'
    /\ exc' = "none"

\* C32 as stated: immediately after _reset_filters(sender) returns, every
\* filter field, the sort and the page of the sender equal the defaults, the
\* sender's cached ids, cached rows, last-viewed id and search-wait flag are
\* removed, and the reset state has been written to the file.
ResetWrittenToFile ==
    [][\A s \in Senders : ResetStep(s) =>
        /\ LeavesDefaults(s)
        /\ file' = FileWith(json_dumps(filters'))]_vars

\* C32: immediately after _reset_filters(sender) returns, the sender's
\* state equals the defaults and the four cache entries are removed; the
\* file holds the mapping with the reset state when the write succeeded,
\* and a write that failed is not reported: the file is as it was or holds
\* what the failed write left, and no exception escapes.
ResetWrittenWhenWriteSucceeds ==
    [][\A s \in Senders : ResetStep(s) =>
        /\ LeavesDefaults(s)
        /\ lastWriteOk' => file' = FileWith(json_dumps(filters'))
        /\ ~lastWriteOk' => file' \in {file, FileWith(JInvalid)}]_vars

\* /start of a sender who had turned the page, waited for a search query or
\* opened an ad, with a write that failed: the state in memory is the
\* default one, the file still holds the second page
ResetInMemoryOnly ==
    /\ routed = [handler |-> "handle_start", sender |-> "u1"]
    /\ reply.kind = "start_text"
    /\ ~lastWriteOk
    /\ IsDefaultState(filters["u1"])
    /\ "u1" \notin DOMAIN lastCatalog
    /\ "u2" \in DOMAIN lastCatalog
    /\ file.exists
    /\ file.content # JInvalid
    /\ "u1" \in DOMAIN _load_filter_state(EmptyDict, file)
    /\ _load_filter_state(EmptyDict, file)["u1"]["page"] = PyInt(1)

-----------------------------------------------------------------------------
(* «объявление<digits>» *)

In_Obyavlenie_2 == <<1054, 1073, 1098, 1103, 1074, 1083, 1077, 1085, 1080, 1077, 32, 50>>  \* "Объявление 2"
In_obyavlenie7 == <<1086, 1073, 1098, 1103, 1074, 1083, 1077, 1085, 1080, 1077, 55>>  \* "объявление7"
In_ID_2 == <<73, 68, 32, 50>>  \* "ID 2"
In_id7 == <<105, 100, 55>>  \* "id7"

\* the two spellings of a request for the ad n
AdWordTexts ==
    {[word |-> In_Obyavlenie_2, id |-> In_ID_2, n |-> 2],
     [word |-> In_obyavlenie7, id |-> In_id7, n |-> 7]}

\* the owner of the listings and a sender without ads list their ads, look
\* at the catalog and ask for an ad in both spellings
AdWordEvents ==
    {Incoming(s, TextData(t)) : s \in Senders,
        t \in {In_Moi, In_Pokazat, In_Dalshe} \cup {e.word : e \in AdWordTexts}
              \cup {e.id : e \in AdWordTexts}}

NextAdWord ==
    \/ \E event \in AdWordEvents : HandleFallback(event, TRUE, DbOk, TRUE, TRUE, TRUE)
    \/ \E event \in AdWordEvents : HandleBuyText(event, TRUE, TRUE)

SpecAdWord == InitEntry({DefaultSettings}) /\ [][NextAdWord]_vars

\* what _extract_public_id returns for the text
PublicIdOf(s, text) == _extract_public_id(filters, lastCatalog, s, text, TRUE).reply.value

\* C33: «объявление<digits>» is resolved to the literal ad identifier
\* <digits>, exactly like «id<digits>», and not to a position in a list
\* shown before, by _extract_detail_request and by _extract_public_id.
AdWordIsLiteralId ==
    \A s \in Senders, e \in AdWordTexts :
        /\ _extract_detail_request(lastSummaries, s, e.word) = PyInt(e.n)
        /\ _extract_detail_request(lastSummaries, s, e.word)
                = _extract_detail_request(lastSummaries, s, e.id)
        /\ PublicIdOf(s, e.word) = PyInt(e.n)
        /\ PublicIdOf(s, e.word) = PublicIdOf(s, e.id)

\* what the code does: the sell section takes the number after «объявление»
\* as a position in the sender's last list of own ads when it is within the
\* list and as the id otherwise, the buy section does not know the word;
\* «id<digits>» is the literal id in both
AdWordIsPositionOrNothing ==
    \A s \in Senders, e \in AdWordTexts :
        LET current == IF s \in DOMAIN lastSummaries THEN lastSummaries[s] ELSE <<>> IN
        /\ _extract_detail_request(lastSummaries, s, e.word)
                = IF e.n <= Len(current) THEN PyInt(current[e.n]) ELSE PyInt(e.n)
        /\ PublicIdOf(s, e.word) = PyNone
        /\ _extract_detail_request(lastSummaries, s, e.id) = PyInt(e.n)
        /\ PublicIdOf(s, e.id) = PyInt(e.n)

\* the same text in the buy section: no detail request, no command, the
\* text is not handled and nothing is answered
AdWordUnknownToBuy ==
    [][\A e \in AdWordTexts :
        (routed'.handler = "handle_buy_text"
            /\ \E s \in Senders : HandleBuyText(Incoming(s, TextData(e.word)), TRUE, TRUE))
        => reply' = NoReply /\ UNCHANGED <<filters, cacheVars>>]_vars

\* the owner listed the ads and asked for «Объявление 2»: the card shown is
\* the one of the second ad of the list, the ad 7
AdWordOpenedByPosition ==
    /\ routed = [handler |-> "handle_fallback", sender |-> "u2"]
    /\ "u2" \in DOMAIN lastSummaries
    /\ lastSummaries["u2"] = <<8, 7, 6, 5, 4>>
    /\ reply = [kind |-> "sell_detail", id |-> 7]
    /\ _extract_detail_request(lastSummaries, "u2", In_Obyavlenie_2) = PyInt(7)

-----------------------------------------------------------------------------
(* Whose cache a detail comes from *)

\* CrudeAdd.change_status(ad_id, is_active): the status of an ad that exists
\* is updated
ChangeStatus(ad_id, is_active) ==
    /\ \E i \in 1..Len(store.ads) :
        /\ store.ads[i].id = ad_id
        /\ store.ads[i].is_active # is_active
        /\ store' = [store EXCEPT !.ads[i].is_active = is_active]
    /\ reply' = NoReply
    /\ exc' = "none"
    /\ call' = NoCall
    /\ routed' = NoRoute
    /\ UNCHANGED <<states, nextFile, filterVars, cacheVars, processed, users, settings,
                   runner>>

\* two senders look at the first page of the catalog and ask for the ads 7
\* (on the first page) and 2 (on the second), whose status changes in between
ViewerEvents ==
    {Incoming(s, TextData(t)) : s \in Senders, t \in {In_Pokazat, In_id7, In_ID_2}}

NextViewers ==
    \/ \E event \in ViewerEvents : HandleBuyText(event, TRUE, TRUE)
    \/ \E ad_id \in {2, 7}, is_active \in BOOLEAN : ChangeStatus(ad_id, is_active)

SpecViewers == InitEntry({DefaultSettings}) /\ [][NextViewers]_vars

\* what the viewer is shown: the lines of the card, which _build_ad_detail
\* makes of these fields of the ad, or the message
Shown(w) ==
    IF w.sent = <<>> THEN NoReply
    ELSE IF w.sent[1].kind # "buy_detail" THEN w.sent[1]
    ELSE Only({[kind |-> "buy_detail", id |-> ad.id, title |-> ad.title,
                model |-> ad.model, price |-> ad.price, year |-> ad.year,
                mileage |-> ad.mileage, condition |-> ad.condition,
                region |-> ad.region, status |-> ad.status, sender |-> ad.sender]
               : ad \in {w.sent[1].ad}})

\* the process as it is but for the caches of the senders other than viewer
WithoutOtherCaches(viewer) ==
    [World EXCEPT !.lastCatalog = [s \in DOMAIN lastCatalog \cap {viewer} |-> lastCatalog[s]],
                  !.lastDetails = [s \in DOMAIN lastDetails \cap {viewer} |-> lastDetails[s]]]

\* whether the store holds the ad as an active one
ActiveInStore(ad_id) ==
    \E i \in 1..Len(store.ads) : store.ads[i].id = ad_id /\ store.ads[i].is_active

\* whether the viewer's own cache holds the ad
InOwnCache(viewer, ad_id) ==
    viewer \in DOMAIN lastDetails /\ ad_id \in DOMAIN lastDetails[viewer]

\* C34: the ad detail shown to a viewer for an id depends only on the
\* viewer's own cached catalog and the store, not on what other senders
\* have rendered: the process with and without the other senders' caches
\* shows the viewer the same, and an ad that is not active in the store and
\* not in the viewer's own cache is reported as not found.
DetailIgnoresOtherCaches ==
    \A viewer \in Senders, ad_id \in {2, 7} :
        /\ Shown(_build_ad_detail(World, viewer, ad_id, TRUE))
                = Shown(_build_ad_detail(WithoutOtherCaches(viewer), viewer, ad_id, TRUE))
        /\ (~ActiveInStore(ad_id) /\ ~InOwnCache(viewer, ad_id))
                => Shown(_build_ad_detail(World, viewer, ad_id, TRUE)).kind = "buy_not_found"

\* what the code does: an ad that no cache holds is shown as the store has
\* it when it is active there and is not found otherwise; an ad that only
\* another sender's cache holds is shown as that cache has it, whatever the
\* store says
DetailFromAnyCache ==
    \A viewer \in Senders, ad_id \in {2, 7} :
        LET holders == {s \in DOMAIN lastDetails : ad_id \in DOMAIN lastDetails[s]}
            shown == Shown(_build_ad_detail(World, viewer, ad_id, TRUE))
        IN  /\ holders = {} =>
                IF ActiveInStore(ad_id)
                THEN shown.kind = "buy_detail" /\ shown.id = ad_id /\ shown.status = "active"
                ELSE shown.kind = "buy_not_found"
            /\ (holders # {} /\ viewer \notin holders) =>
                \E s \in holders :
                    shown = Shown(Answer(World, [kind |-> "buy_detail",
                                                 ad |-> lastDetails[s][ad_id]]))

\* the ad 7 was taken off after u2 had looked at the catalog, and u1, who
\* never rendered anything, asked for it and was shown it as active
StaleCardFromOtherSender ==
    /\ routed = [handler |-> "handle_buy_text", sender |-> "u1"]
    /\ reply.kind = "buy_detail"
    /\ reply.ad.id = 7
    /\ reply.ad.status = "active"
    /\ ~ActiveInStore(7)
    /\ "u1" \notin DOMAIN lastDetails
    /\ lastViewed = [s \in {"u1"} |-> 7]

-----------------------------------------------------------------------------
(* The numbers of the sell form *)

\* the texts a sender answers the price, year and mileage questions with,
\* each with what it spells:
\*   "0": the integer 0
\*   "-5": the integer -5
\*   "1 000": the integer 1000 once the spaces are removed
\*   "2147483647": the integer 2147483647
\*   "2147483648": an integer beyond 32 bits
\*   "2 147 483 648": an integer beyond 32 bits once the spaces are removed
\*   "-99999999999": an integer beyond 32 bits
\*   "12a": no integer
\*   "1_0": the integer 10
\*   "1949": the integer 1949
\*   "1950": the integer 1950
\*   "2027": the integer 2027
\*   "2028": the integer 2028
NumberAnswers ==
    {
     [text |-> <<48>>, kind |-> "int", n |-> 0, spaced |-> FALSE],
     [text |-> <<45, 53>>, kind |-> "int", n |-> -5, spaced |-> FALSE],
     [text |-> <<49, 32, 48, 48, 48>>, kind |-> "int", n |-> 1000, spaced |-> TRUE],
     [text |-> <<50, 49, 52, 55, 52, 56, 51, 54, 52, 55>>, kind |-> "int", n |-> 2147483647, spaced |-> FALSE],
     [text |-> <<50, 49, 52, 55, 52, 56, 51, 54, 52, 56>>, kind |-> "huge", n |-> 0, spaced |-> FALSE],
     [text |-> <<50, 32, 49, 52, 55, 32, 52, 56, 51, 32, 54, 52, 56>>, kind |-> "huge", n |-> 0, spaced |-> TRUE],
     [text |-> <<45, 57, 57, 57, 57, 57, 57, 57, 57, 57, 57, 57>>, kind |-> "huge", n |-> 0, spaced |-> FALSE],
     [text |-> <<49, 50, 97>>, kind |-> "none", n |-> 0, spaced |-> FALSE],
     [text |-> <<49, 95, 48>>, kind |-> "int", n |-> 10, spaced |-> FALSE],
     [text |-> <<49, 57, 52, 57>>, kind |-> "int", n |-> 1949, spaced |-> FALSE],
     [text |-> <<49, 57, 53, 48>>, kind |-> "int", n |-> 1950, spaced |-> FALSE],
     [text |-> <<50, 48, 50, 55>>, kind |-> "int", n |-> 2027, spaced |-> FALSE],
     [text |-> <<50, 48, 50, 56>>, kind |-> "int", n |-> 2028, spaced |-> FALSE]
    }

\* the texts of a sender who answers a number question with one of the
\* number texts and any other question with an answer it takes
NumberAnswersOf(s) ==
    IF s \in DOMAIN states /\ states[s].step_index \in {2, 5, 6}
    THEN {a.text : a \in NumberAnswers}
    ELSE IF s \in DOMAIN states /\ states[s].step_index = 7 THEN {In_remontirovalsya}
    ELSE AnswersOf(s)

NextNumbers ==
    \E s \in FormSenders :
        \/ Start(s)
        \/ \E t \in NumberAnswersOf(s) : Handle(s, PyStr(t), DbDown)
        \/ \E md \in {x \in MediaMessages : x.fileMessageData # PyNone
                                              /\ x.fileMessageData.downloadUrl # PyNone} :
                HandleMedia(s, md, TRUE)

\* forms filled in with every number text on the three number questions; the
\* store takes no ad, so that the call of create_ad_from_form is what is seen
SpecNumbers == Init /\ [][NextNumbers]_vars

\* whether the answer is in the range of the question of step i: an integer
\* (for the year as typed, for price and mileage once the spaces are out)
\* with 0 < price, 0 <= mileage, 1950 <= year <= current year + 1, and at
\* most 2147483647
InRangeOf(i, a) ==
    /\ a.kind = "int"
    /\ CASE i = 2 -> 0 < a.n /\ a.n <= POSTGRES_INT_MAX
         [] i = 5 -> ~a.spaced /\ 1950 <= a.n /\ a.n <= UtcYear + 1
         [] OTHER -> 0 <= a.n /\ a.n <= POSTGRES_INT_MAX

\* the numbers the data holds are within the ranges
NumbersWithin(data) ==
    /\ "price" \in DOMAIN data =>
            \E n \in {data["price"].int} : 0 < n /\ n <= POSTGRES_INT_MAX
    /\ "mileage" \in DOMAIN data =>
            \E n \in {data["mileage"].int} : 0 <= n /\ n <= POSTGRES_INT_MAX
    /\ "year" \in DOMAIN data =>
            \E n \in {data["year"].int} : 1950 <= n /\ n <= UtcYear + 1

\* C35: every value the sell form stores and passes to create_ad_from_form
\* satisfies 0 < price <= 2147483647, 0 <= mileage <= 2147483647 and
\* 1950 <= year <= current_year + 1; an answer outside these ranges, or one
\* that is no integer (after removing spaces for price and mileage), is
\* rejected and never stored, and an answer within them is stored as the
\* number it spells.
FormNumbersInRange ==
    /\ [](/\ \A s \in DOMAIN states : NumbersWithin(states[s].data)
          /\ call.made => NumbersWithin(call.data))
    /\ [][\A s \in FormSenders, a \in NumberAnswers :
            (/\ s \in DOMAIN states
             /\ states[s].step_index \in {2, 5, 6}
             /\ Handle(s, PyStr(a.text), DbDown))
            => IF InRangeOf(states[s].step_index, a)
               THEN /\ states'[s].step_index = states[s].step_index + 1
                    /\ states'[s].data =
                            DictPut(states[s].data,
                                    SELL_FORM_STEPS[states[s].step_index + 1].key,
                                    PyInt(a.n))
               ELSE /\ states' = states
                    /\ reply'.kind = "error"
                    /\ ~call'.made]_vars

\* create_ad_from_form was called with the largest price, a mileage of zero
\* and the year after the current one
BoundaryNumbersPassed ==
    /\ call.made
    /\ call.data["price"] = PyInt(POSTGRES_INT_MAX)
    /\ call.data["mileage"] = PyInt(0)
    /\ call.data["year"] = PyInt(UtcYear + 1)

-----------------------------------------------------------------------------
(* The search query after buy_search *)

In_z == <<122>>  \* "z"

\* the texts of the search runs, each with what a search for it gives: the
\* five first ads for «car», too short for «z», nothing for the others,
\* commands among them
SearchTexts ==
    {[text |-> In_car, gives |-> "search_result"],
     [text |-> In_z, gives |-> "search_too_short"],
     [text |-> In_zz, gives |-> "search_nothing"],
     [text |-> In_Pokazat, gives |-> "search_nothing"],
     [text |-> In_Poisk_avto, gives |-> "search_nothing"],
     [text |-> In_Sbros, gives |-> "search_nothing"]}

SearchEvents ==
    {Incoming("u1", TextData(t.text)) : t \in SearchTexts}
    \cup {Incoming("u2", TextData(In_car))}

NextSearch ==
    \/ \E s \in Senders :
        HandleMenuSelection(Incoming(s, ButtonData("buy_search")), TRUE, TRUE, TRUE)
    \/ \E event \in SearchEvents, dbOk \in BOOLEAN : HandleBuyText(event, dbOk, TRUE)
    \/ \E s \in Senders : ResetFilters(s, "ok")

SpecSearch == InitEntry({DefaultSettings}) /\ [][NextSearch]_vars

\* whether _SEARCH_WAIT holds the sender
Waiting(flags, s) == s \in DOMAIN flags

\* C36: after the buy_search button the next text passed to handle_buy_text
\* for the sender, and only that one, is treated as a search query; the wait
\* flag is cleared by that message whether or not the search finds anything
\* (also for a query shorter than 2 characters, and when the database
\* fails), and it is cleared by _reset_filters, so that later texts are
\* parsed as ordinary commands.
SearchWaitsForOneText ==
    /\ [][\A s \in Senders :
            (routed' = [handler |-> "handle_menu_selection", sender |-> s]
                /\ reply'.kind = "search_prompt")
            => Waiting(searchWait', s)]_vars
    /\ [][\A s \in Senders, t \in SearchTexts, dbOk \in BOOLEAN :
            (Waiting(searchWait, s) /\ HandleBuyText(Incoming(s, TextData(t.text)), dbOk, TRUE))
            => /\ ~Waiting(searchWait', s)
               /\ filters' = filters
               /\ IF t.gives = "search_too_short" THEN reply'.kind = "search_too_short"
                  ELSE IF ~dbOk THEN exc' = "DBError" /\ reply' = NoReply
                  ELSE reply'.kind = t.gives]_vars
    /\ [][\A s \in Senders, t \in SearchTexts, dbOk \in BOOLEAN :
            (~Waiting(searchWait, s) /\ HandleBuyText(Incoming(s, TextData(t.text)), dbOk, TRUE))
            => /\ reply'.kind \notin {"search_result", "search_too_short", "search_nothing"}
               /\ Waiting(searchWait', s) <=> Lower(t.text) = T_poisk_avto
               /\ Lower(t.text) = T_poisk_avto => reply'.kind = "search_prompt"]_vars
    /\ [][\A s \in Senders : ResetFilters(s, "ok") => ~Waiting(searchWait', s)]_vars

\* «Показать» was taken as a query that found nothing, and u1 waits no more
\* while u2 still does
CommandTakenAsQuery ==
    /\ routed = [handler |-> "handle_buy_text", sender |-> "u1"]
    /\ reply.kind = "search_nothing"
    /\ ~Waiting(searchWait, "u1")
    /\ Waiting(searchWait, "u2")
    /\ "u1" \notin DOMAIN lastCatalog

-----------------------------------------------------------------------------
(* The keys of the form data, checked under SpecWizard *)

\* C37: for a sender with a form state at step i the keys of data are
\* exactly the keys of the steps 0..i-1, photos among them only once the
\* photo step is finished; create_ad_from_form is only ever called with
\* title, description, price, brand, model, year, mileage, vin, region,
\* condition and photos all present.
DataKeysFollowSteps ==
    /\ \A s \in DOMAIN states :
        /\ states[s].step_index \in 0..NSteps
        /\ DOMAIN states[s].data = KeysBefore(states[s].step_index)
        /\ "photos" \in DOMAIN states[s].data <=> states[s].step_index = NSteps
    /\ call.made =>
        DOMAIN call.data = {"title", "description", "price", "brand", "model", "year",
                            "mileage", "vin", "region", "condition", "photos"}

\* create_ad_from_form was called for a form finished with «Готово» after
\* two photos, after answers that were turned down on the way
FormFinishedWithAllKeys ==
    /\ call.made
    /\ Len(call.data["photos"].list) = 2
    /\ call.data["price"] = PyInt(2020)
    /\ states = EmptyDict

-----------------------------------------------------------------------------
(* The database runner *)

\* calls of db_runner.run in one run
MaxCalls == 3
\* awaits of a database coroutine (the statement, the commit)
Awaits == 2

RunnerFrame ==
    /\ reply' = NoReply
    /\ exc' = "none"
    /\ UNCHANGED <<formVars, filterVars, store, cacheVars, processed, users, settings, routed>>

\* the thread of DBRunner.__init__ gets to run
RunLoop ==
    /\ runner.loop = "created"
    /\ runner' = _run_loop(runner)
    /\ RunnerFrame

\* the handler thread, which runs one handler at a time, calls a facade
\* function: db_runner.run(coro) with a coroutine that writes or reads
CallRun(coro) ==
    /\ runner.caller.pc = "idle"
    /\ Len(runner.calls) < MaxCalls
    /\ runner' = run(runner, coro)
    /\ RunnerFrame

\* the future of the waiting caller is done and .result() returns
ResultReturns ==
    /\ runner.caller.pc = "result"
    /\ runner.futures[runner.caller.id].state # "pending"
    /\ runner' = result(runner)
    /\ RunnerFrame

\* the loop thread takes a coroutine from its queue
LoopStarts ==
    /\ runner.loop = "running"
    /\ runner.ready # <<>>
    /\ runner' = TaskStarted(runner, Awaits)
    /\ RunnerFrame

\* the loop thread resumes a suspended coroutine
LoopResumes(id, raises) ==
    /\ runner.loop = "running"
    /\ id \in DOMAIN runner.tasks
    /\ runner' = TaskResumed(runner, id, raises)
    /\ RunnerFrame

NextRunner ==
    \/ RunLoop
    \/ \E coro \in {"write", "read"} : CallRun(coro)
    \/ ResultReturns
    \/ LoopStarts
    \/ \E id \in 1..MaxCalls, raises \in BOOLEAN : LoopResumes(id, raises)

SpecRunner == Init /\ [][NextRunner]_vars

\* the coroutines handed over and not finished
InProgress == {id \in 1..Len(runner.futures) : runner.futures[id].state = "pending"}

\* the rows a write has put into the table up to call k, were the calls
\* carried out one after the other in the order they were made
WrittenUpTo(k) ==
    {id \in 1..k : runner.calls[id] = "write" /\ runner.futures[id].state = "result"}

\* C38: every database coroutine is run by the one loop thread; a caller of
\* db_runner.run is kept until its own coroutine has finished and gets that
\* coroutine's result or exception, so that with handlers running one at a
\* time at most one database operation is in progress at any moment and the
\* operations take effect in call order.
DatabaseAccessSerial ==
    /\ Cardinality(InProgress) <= 1
    /\ \A id \in InProgress : runner.caller = [pc |-> "result", id |-> id, got |-> runner.caller.got]
    /\ \A id \in DOMAIN runner.tasks : id \in InProgress
    /\ runner.done = [i \in 1..Len(runner.done) |-> i]
    /\ \A i \in 1..Len(runner.db) : \A j \in 1..Len(runner.db) :
            i < j => runner.db[i] < runner.db[j]
    /\ \A id \in 1..Len(runner.futures) :
            runner.futures[id].state = "result" =>
                runner.futures[id].value = Cardinality(WrittenUpTo(id))
    /\ (runner.caller.pc = "idle" /\ runner.caller.id > 0) =>
            /\ InProgress = {}
            /\ runner.caller.got = runner.futures[runner.caller.id]
            /\ runner.caller.id = Len(runner.calls)

\* three calls were made, the second raised and the caller got the exception
\* and went on; the third, a read, returned the one row the first had written
ThirdCallAfterException ==
    /\ runner.calls = <<"write", "write", "read">>
    /\ runner.futures[2] = Raised
    /\ runner.caller = [pc |-> "idle", id |-> 3, got |-> Result(1)]
    /\ runner.db = <<1>>

=============================================================================
